---- MODULE Spec2Model ----
(***************************************************************************)
(* Model of the lgtm-bot Slack events endpoint: the request authenticator  *)
(* (lib/slack.ts verifySlackRequest), the body normalizer, the reference   *)
(* and mention extractors, the approval-state checker and the approval     *)
(* orchestrator (api/events handler), together with the credential store   *)
(* (lib/db.ts) and the remote review lists the handler reads and writes.   *)
(*                                                                         *)
(* Strings that the code only compares are TLA+ strings; strings that the  *)
(* code parses are modelled by their structure: a raw body by its JSON     *)
(* reading and its URLSearchParams reading, a message text by its tokens,  *)
(* a URL by its path segments.  HMAC-SHA256 is the usual symbolic keyed    *)
(* hash: a digest is equal to another iff key and message are equal.       *)
(***************************************************************************)
EXTENDS Integers, Sequences, FiniteSets, TLC

(***************************************************************************)
(* Bounds of the model                                                     *)
(***************************************************************************)
\* length bound of the bodies and of the signing secrets in the
\* specification of the authenticator
MaxLen == 2

\* length bound, in tokens, of the texts in the specification of the
\* extractors
MaxTextLen == 3

(***************************************************************************)
(* Program constants                                                       *)
(***************************************************************************)
\* replay window in seconds
ReplayWindow == 300
\* length of a hex SHA-256 digest
HexDigestLen == 64
\* length of the 'v0=' prefix
SigPrefixLen == 3
\* Math.floor(Date.now() / 1000) at the time of the request
Now == 1000

Chars == {"a", "b"}

Abs(x) == IF x < 0 THEN -x ELSE x

SeqsUpTo(S, n) == UNION {[1..k -> S] : k \in 0..n}

\* a and b have the same length and differ in exactly one position
OneCharApart(a, b) ==
    /\ Len(a) = Len(b)
    /\ Cardinality({i \in 1..Len(a) : a[i] # b[i]}) = 1

(***************************************************************************)
(* Request Authenticator (lib/slack.ts)                                    *)
(*                                                                         *)
(* A timestamp header is [s, n]: s = "num" for a decimal string of value   *)
(* n, "nan" for a string parseInt cannot read, "absent" for a missing or   *)
(* empty header.  A signature header is [len, alg, key, msg]: its length   *)
(* in bytes and, symbolically, the digest it carries (alg = "junk" for     *)
(* bytes that are no digest of anything, len = 0 for a missing header).    *)
(***************************************************************************)
TsNum(n) == [s |-> "num", n |-> n]
TsNaN == [s |-> "nan", n |-> 0]
TsAbsent == [s |-> "absent", n |-> 0]

SigAbsent == [len |-> 0, alg |-> "junk", key |-> <<>>, msg |-> <<>>]
SigJunk(n) == [len |-> n, alg |-> "junk", key |-> <<>>, msg |-> <<>>]

\* `v0:${timestamp}:${body}`
SigBasestring(timestamp, body) == <<"v0", ":", timestamp, ":">> \o body

\* `v0=${createHmac('sha256', secret).update(basestring).digest('hex')}`
ComputeSignature(body, timestamp, signingSecret) ==
    [len |-> SigPrefixLen + HexDigestLen, alg |-> "hmac-sha256",
     key |-> signingSecret, msg |-> SigBasestring(timestamp, body)]

\* mutant of timingSafeEqual: only the lengths are compared
timingSafeEqual_LenOnly(a, b) ==
    IF a.len # b.len THEN "throw" ELSE "true"

\* crypto.timingSafeEqual: throws when the byte lengths differ
timingSafeEqual(a, b) ==
    IF a.len # b.len THEN "throw"
    ELSE IF a = b THEN "true" ELSE "false"

\* mutant of RequestTooOld: the age is not taken in absolute value
RequestTooOld_NoAbs(timestamp, now) ==
    timestamp.s = "num" /\ now - timestamp.n > ReplayWindow

\* requestAge > 300; Math.abs(NaN) > 300 is false
RequestTooOld(timestamp, now) ==
    timestamp.s = "num" /\ Abs(now - timestamp.n) > ReplayWindow

\* mutant of CompareCatch: a comparison that throws counts as a match
CompareCatch_True == TRUE

\* the catch around timingSafeEqual: log the error, return false
CompareCatch == FALSE

\* mutant of verifySlackRequest: every request is accepted
verifySlackRequest_Accept(body, timestamp, signature, signingSecret, now) == TRUE

verifySlackRequest(body, timestamp, signature, signingSecret, now) ==
    IF RequestTooOld(timestamp, now) THEN FALSE
    ELSE LET mySignature == ComputeSignature(body, timestamp, signingSecret)
             cmp == timingSafeEqual(mySignature, signature)
         IN  IF cmp = "throw" THEN CompareCatch ELSE cmp = "true"

(***************************************************************************)
(* Body Normalizer (handler, body parsing)                                 *)
(*                                                                         *)
(* A JSON value is [jk, type, challenge, event]; jk = "SyntaxError" when   *)
(* JSON.parse throws on the text, "null" for the JSON null, "object" for   *)
(* an object whose absent fields read "undefined".  A raw body is          *)
(* [json, form]: what JSON.parse makes of it and the key/value pairs       *)
(* URLSearchParams makes of it; a form value is [s, json], the string and  *)
(* what JSON.parse makes of that string.                                   *)
(***************************************************************************)
NoText == <<>>

Ev(type, subtype, user, channel, ts, text, reaction) ==
    [defined |-> TRUE, type |-> type, subtype |-> subtype, user |-> user,
     channel |-> channel, ts |-> ts, text |-> text, reaction |-> reaction]

NoEvent ==
    [defined |-> FALSE, type |-> "undefined", subtype |-> "undefined",
     user |-> "undefined", channel |-> "undefined", ts |-> "undefined",
     text |-> NoText, reaction |-> "undefined"]

JBody(type, challenge, event) ==
    [jk |-> "object", type |-> type, challenge |-> challenge, event |-> event]

JNull == [jk |-> "null", type |-> "undefined", challenge |-> "undefined", event |-> NoEvent]

JSyntaxError ==
    [jk |-> "SyntaxError", type |-> "undefined", challenge |-> "undefined", event |-> NoEvent]

FormStr(s) == [s |-> s, json |-> JSyntaxError]
FormJson(s, j) == [s |-> s, json |-> j]
Field(k, v) == [key |-> k, val |-> v]

\* URLSearchParams.get: the first value of the key, null when there is none
ParamsGet(form, k) ==
    LET idx == {i \in 1..Len(form) : form[i].key = k}
    IN  IF idx = {} THEN FormStr("")
        ELSE form[CHOOSE i \in idx : \A j \in idx : i <= j].val

\* params.forEach((value, key) => body[key] = value): the last value wins
FlatField(form, k) ==
    LET idx == {i \in 1..Len(form) : form[i].key = k}
    IN  IF idx = {} THEN "undefined"
        ELSE form[CHOOSE i \in idx : \A j \in idx : i >= j].val.s

\* mutant of ParseRequestBody: the nested payload is not looked for
ParseRequestBody_NoPayload(rawBody) ==
    IF rawBody.json.jk # "SyntaxError"
    THEN [threw |-> FALSE, body |-> rawBody.json]
    ELSE [threw |-> FALSE,
          body |-> JBody(FlatField(rawBody.form, "type"),
                         FlatField(rawBody.form, "challenge"),
                         NoEvent)]

\* result of the try/catch around JSON.parse(rawBody): [threw, body]
ParseRequestBody(rawBody) ==
    IF rawBody.json.jk # "SyntaxError"
    THEN [threw |-> FALSE, body |-> rawBody.json]
    ELSE LET payload == ParamsGet(rawBody.form, "payload")
         IN  IF payload.s # ""
             THEN IF payload.json.jk = "SyntaxError"
                  THEN [threw |-> TRUE, body |-> JSyntaxError]
                  ELSE [threw |-> FALSE, body |-> payload.json]
             ELSE [threw |-> FALSE,
                   body |-> JBody(FlatField(rawBody.form, "type"),
                                  FlatField(rawBody.form, "challenge"),
                                  NoEvent)]

(***************************************************************************)
(* Mention Extractor and Reference Extractor                               *)
(*                                                                         *)
(* A text is a sequence of tokens: a mention <@id> or <@id|name>, a        *)
(* chat-wrapped link <url> or <url|label>, a bare url, or a word.  A url   *)
(* is the sequence of its '/'-separated segments after the scheme.         *)
(***************************************************************************)
Mention(id, named) == [t |-> "mention", id |-> id, url |-> <<>>, suffix |-> named]
Wrapped(url, labelled) == [t |-> "wrapped", id |-> "", url |-> url, suffix |-> labelled]
Bare(url) == [t |-> "bare", id |-> "", url |-> url, suffix |-> FALSE]
Word == [t |-> "word", id |-> "", url |-> <<>>, suffix |-> FALSE]

\* identity tokens the class [A-Z0-9]+ accepts
MentionIds == {"U1", "U2", "U3", "UBOT"}

RECURSIVE extractUserMentions(_)
extractUserMentions(text) ==
    IF text = <<>> THEN <<>>
    ELSE LET tok == Head(text)
         IN  IF tok.t = "mention" /\ tok.id \in MentionIds
             THEN <<tok.id>> \o extractUserMentions(Tail(text))
             ELSE extractUserMentions(Tail(text))

\* parseInt(match[3], 10) of a segment that starts with digits, -1 otherwise
DigitVal(seg) ==
    CASE seg = "42" -> 42
      [] seg = "042" -> 42
      [] seg = "7" -> 7
      [] OTHER -> -1

\* segments in which /github\.com\//i finds its host
GithubHosts == {"github.com", "GitHub.com"}
\* segments in which /graphite\.(?:com|dev)\//i finds its host
GraphiteHosts == {"app.graphite.dev", "app.graphite.com"}
PullWords == {"pull", "PULL"}

NoMatch == [matched |-> FALSE, owner |-> "", repo |-> "", prNumber |-> 0]

\* url.match(githubPattern): leftmost github.com/<owner>/<repo>/pull/<digits>
GithubMatch(segs) ==
    LET idx == {i \in 1..Len(segs) :
                  /\ i + 4 <= Len(segs)
                  /\ segs[i] \in GithubHosts
                  /\ segs[i + 3] \in PullWords
                  /\ DigitVal(segs[i + 4]) >= 0}
    IN  IF idx = {} THEN NoMatch
        ELSE LET i == CHOOSE k \in idx : \A j \in idx : k <= j
             IN  [matched |-> TRUE, owner |-> segs[i + 1], repo |-> segs[i + 2],
                  prNumber |-> DigitVal(segs[i + 4])]

\* url.match(graphitePattern): leftmost graphite.(com|dev)/github/pr/<owner>/<repo>/<digits>
GraphiteMatch(segs) ==
    LET idx == {i \in 1..Len(segs) :
                  /\ i + 5 <= Len(segs)
                  /\ segs[i] \in GraphiteHosts
                  /\ segs[i + 1] = "github"
                  /\ segs[i + 2] = "pr"
                  /\ DigitVal(segs[i + 5]) >= 0}
    IN  IF idx = {} THEN NoMatch
        ELSE LET i == CHOOSE k \in idx : \A j \in idx : k <= j
             IN  [matched |-> TRUE, owner |-> segs[i + 3], repo |-> segs[i + 4],
                  prNumber |-> DigitVal(segs[i + 5])]

\* the GitHub pattern first, the Graphite pattern when it does not match
MatchPR(segs) ==
    IF GithubMatch(segs).matched THEN GithubMatch(segs) ELSE GraphiteMatch(segs)

PRInfo(owner, repo, prNumber) == [owner |-> owner, repo |-> repo, prNumber |-> prNumber]

\* [...text.matchAll(slackLinkPattern)].map(match => match[1])
RECURSIVE SlackLinks(_)
SlackLinks(text) ==
    IF text = <<>> THEN <<>>
    ELSE IF Head(text).t = "wrapped"
         THEN <<Head(text).url>> \o SlackLinks(Tail(text))
         ELSE SlackLinks(Tail(text))

\* text.match(/https?:\/\/[^\s<>]+/g): bare urls and the urls inside <...>
\* (there with the |label glued on, which neither pattern looks at)
RECURSIVE PlainUrls(_)
PlainUrls(text) ==
    IF text = <<>> THEN <<>>
    ELSE IF Head(text).t \in {"wrapped", "bare"}
         THEN <<Head(text).url>> \o PlainUrls(Tail(text))
         ELSE PlainUrls(Tail(text))

\* mutant of CollectPRs: the seen set is not consulted
RECURSIVE CollectPRs_NoSeen(_, _)
CollectPRs_NoSeen(urls, prs) ==
    IF urls = <<>> THEN prs
    ELSE LET m == MatchPR(Head(urls))
         IN  IF m.matched
             THEN CollectPRs_NoSeen(Tail(urls), Append(prs, PRInfo(m.owner, m.repo, m.prNumber)))
             ELSE CollectPRs_NoSeen(Tail(urls), prs)

\* the for-loop over allUrls with the seen set
RECURSIVE CollectPRs(_, _)
CollectPRs(urls, prs) ==
    IF urls = <<>> THEN prs
    ELSE LET m == MatchPR(Head(urls))
             pr == PRInfo(m.owner, m.repo, m.prNumber)
             seen == {prs[i] : i \in 1..Len(prs)}
         IN  IF m.matched /\ pr \notin seen
             THEN CollectPRs(Tail(urls), Append(prs, pr))
             ELSE CollectPRs(Tail(urls), prs)

\* const allUrls = [...slackLinks, ...plainUrls]
allUrls(text) == SlackLinks(text) \o PlainUrls(text)

extractPRs(text) == CollectPRs(allUrls(text), <<>>)

(***************************************************************************)
(* Approval-State Checker                                                  *)
(***************************************************************************)
toLowerCase(s) ==
    CASE s = "Alice" -> "alice"
      [] s = "ALICE" -> "alice"
      [] s = "Bob" -> "bob"
      [] OTHER -> s

Review(login, state) == [login |-> login, state |-> state]

\* mutant of LatestIsApproval: the logins are compared case-sensitively
LatestIsApproval_CaseSensitive(reviewList, githubUsername) ==
    LET userReviews == SelectSeq(reviewList, LAMBDA rv : rv.login = githubUsername)
    IN  IF Len(userReviews) = 0 THEN FALSE
        ELSE userReviews[Len(userReviews)].state = "APPROVED"

\* mutant of LatestReview: the first review of the user is taken
LatestReview_First(userReviews) == userReviews[1]

\* "Get the most recent review from this user": the last of the filtered list
LatestReview(userReviews) == userReviews[Len(userReviews)]

\* the body of the try block of hasAlreadyApproved, on a fetched review list
LatestIsApproval(reviewList, githubUsername) ==
    LET userReviews == SelectSeq(reviewList,
                          LAMBDA rv : toLowerCase(rv.login) = toLowerCase(githubUsername))
    IN  IF Len(userReviews) = 0 THEN FALSE
        ELSE LatestReview(userReviews).state = "APPROVED"

\* mutant of CatchAnswer: a failed query counts as 'already approved'
CatchAnswer_True == TRUE

\* the catch of hasAlreadyApproved: "If we can't check, proceed with the
\* approval attempt", return false
CatchAnswer == FALSE

\* mutant of hasAlreadyApproved: the answer is always 'not approved'
hasAlreadyApproved_Never(listOk, reviewList, githubUsername) == FALSE

\* listOk = FALSE: octokit.pulls.listReviews threw and the catch answers
hasAlreadyApproved(listOk, reviewList, githubUsername) ==
    IF listOk THEN LatestIsApproval(reviewList, githubUsername) ELSE CatchAnswer

(***************************************************************************)
(* Values the requests, the environment and the collaborators range over   *)
(***************************************************************************)
Reqs == {1, 2}

TheSecret == <<"a", "b">>
BotToken == "xoxb-bot"
\* user_id that auth.test reports for the bot token
BotId == "UBOT"

GH1 == <<"github.com", "acme", "widgets", "pull", "42">>
GH2 == <<"GitHub.com", "acme", "gadgets", "PULL", "7">>
GR1 == <<"app.graphite.dev", "github", "pr", "acme", "widgets", "042">>
DocUrl == <<"example.com", "docs", "pull">>

PR1 == PRInfo("acme", "widgets", 42)
PR2 == PRInfo("acme", "gadgets", 7)
NoPR == PRInfo("", "", 0)
PRs == {PR1, PR2}

TxtOne == <<Mention("U1", FALSE), Wrapped(GH1, TRUE)>>
TxtTwoByTwo == <<Mention("U1", FALSE), Mention("U2", TRUE), Bare(GH1), Wrapped(GH2, FALSE)>>
TxtDupMention == <<Mention("U1", FALSE), Word, Mention("U1", TRUE), Bare(GR1)>>
TxtNoMention == <<Wrapped(GH1, FALSE), Bare(GH1)>>
TxtNoPR == <<Mention("U1", FALSE), Mention("u2", FALSE), Bare(DocUrl)>>

Texts == {NoText, TxtOne, TxtTwoByTwo, TxtDupMention, TxtNoMention, TxtNoPR}

MessageEvents ==
    {Ev("message", "undefined", "U3", "C1", "ts1", t, "undefined") : t \in Texts}
    \cup {Ev("message", "undefined", u, c, "ts1", TxtOne, "undefined") :
            u \in {"U3", BotId}, c \in {"C1", "C2"}}
    \cup {Ev("message", "message_changed", "U3", "C1", "ts1", TxtOne, "undefined")}

\* channel and ts stand for event.item.channel and event.item.ts
ReactionEvents ==
    {Ev("reaction_added", "undefined", u, c, "ts1", NoText, e) :
        u \in {"U1", "U2", BotId}, c \in {"C1", "C2"}, e \in {"white_check_mark", "eyes"}}

OtherEvents == {Ev("app_mention", "undefined", "U3", "C1", "ts1", TxtOne, "undefined")}

Events == MessageEvents \cup ReactionEvents \cup OtherEvents

Json(j) == [json |-> j, form |-> <<>>]
Form(f) == [json |-> JSyntaxError, form |-> f]

ChallengeBodies ==
    {Json(JBody("url_verification", "ch1", NoEvent)),
     Form(<<Field("challenge", FormStr("ch0")), Field("type", FormStr("url_verification")),
            Field("challenge", FormStr("ch2"))>>),
     Form(<<Field("payload", FormJson("p1", JBody("url_verification", "ch3", NoEvent)))>>)}

MalformedBodies ==
    {Form(<<Field("payload", FormStr("{oops"))>>), Json(JNull)}

OtherBodies ==
    {Json(JBody("app_rate_limited", "undefined", NoEvent)),
     Json(JBody("event_callback", "undefined", NoEvent)),
     Form(<<Field("payload", FormStr("")), Field("type", FormStr("block_actions"))>>),
     Form(<<Field("payload", FormJson("p2",
              JBody("event_callback", "undefined",
                    Ev("reaction_added", "undefined", "U1", "C1", "ts1", NoText,
                       "white_check_mark"))))>>)}

EventBodies == {Json(JBody("event_callback", "undefined", e)) : e \in Events}

RawBodies == ChallengeBodies \cup MalformedBodies \cup OtherBodies \cup EventBodies

\* the raw body as the authenticator is handed it: one opaque text
BodyText(rawBody) == <<rawBody>>

TimestampHeaders == {TsAbsent, TsNum(Now), TsNum(Now - ReplayWindow - 1)}

SignatureHeaders(rawBody, timestamp) ==
    {SigAbsent,
     ComputeSignature(BodyText(rawBody), timestamp, TheSecret),
     SigJunk(SigPrefixLen + HexDigestLen),
     SigJunk(SigPrefixLen)}

Requests ==
    UNION {{[method |-> "POST", rawBody |-> b, timestamp |-> t, signature |-> s] :
               s \in SignatureHeaders(b, t)} : b \in RawBodies, t \in TimestampHeaders}
    \cup
    {[method |-> "GET", rawBody |-> Form(<<>>), timestamp |-> TsAbsent, signature |-> SigAbsent]}

NoRequest ==
    [method |-> "none", rawBody |-> Form(<<>>), timestamp |-> TsAbsent, signature |-> SigAbsent]

\* a process.env list variable: unset, or the parts between its commas
EnvUnset == [set |-> FALSE, parts |-> <<>>]
EnvList(parts) == [set |-> TRUE, parts |-> parts]

MkEnv(secret, botToken, skip, channels) ==
    [SLACK_SIGNING_SECRET |-> secret, SLACK_BOT_TOKEN |-> botToken,
     SKIP_SLACK_VERIFICATION |-> skip, SLACK_ALLOWED_CHANNELS |-> channels,
     TRIGGER_EMOJI |-> "undefined"]

Envs ==
    {MkEnv(TheSecret, BotToken, skip, ch) :
        skip \in {"undefined", "true", "1"},
        ch \in {EnvUnset, EnvList(<<"">>), EnvList(<<"C1">>)}}
    \cup {MkEnv(<<>>, BotToken, "undefined", EnvUnset),
          MkEnv(TheSecret, "", "undefined", EnvUnset)}

\* credential store rows; found = FALSE for no row
Row(token, username) == [found |-> TRUE, token |-> token, username |-> username]
NoRow == [found |-> FALSE, token |-> "", username |-> ""]
SlackIds == {"U1", "U2", "U3", BotId}

\* a row of the table user_tokens
TableRow(slackUserId, githubToken, githubUsername) ==
    [slack_user_id |-> slackUserId, github_token |-> githubToken,
     github_username |-> githubUsername]

\* SELECT github_token, github_username ... WHERE slack_user_id = $1, and what
\* getUserInfo makes of result.rows: null when empty, else rows[0]
SelectUserInfo(rows, slackUserId) ==
    LET result == SelectSeq(rows, LAMBDA row : row.slack_user_id = slackUserId)
    IN  IF Len(result) = 0 THEN NoRow
        ELSE Row(result[1].github_token, result[1].github_username)

Stores ==
    {<<TableRow("U1", "ghp_alice", "Alice"), TableRow("U2", "ghp_bob", "bob")>>,
     <<TableRow("U2", "ghp_bob", "bob"), TableRow(BotId, "ghp_bot", "lgtm-bot")>>}

\* the GitHub login a token acts as
TokenLogin(token) ==
    CASE token = "ghp_alice" -> "alice"
      [] token = "ghp_bob" -> "bob"
      [] OTHER -> "lgtm-bot"

ReviewLists ==
    {[p \in PRs |-> <<>>],
     [p \in PRs |-> IF p = PR1 THEN <<Review("ALICE", "APPROVED"), Review("bob", "COMMENTED")>>
                    ELSE <<Review("alice", "APPROVED"), Review("alice", "CHANGES_REQUESTED"),
                           Review("bob", "APPROVED")>>]}

(***************************************************************************)
(* State                                                                   *)
(***************************************************************************)
VARIABLES
    env,        \* process.env of the deployment
    store,      \* table user_tokens: slack_user_id -> row
    reviews,    \* remote review list of every pull request
    req,        \* req[r]: the delivery handled by invocation r
    pc,         \* pc[r]: where invocation r of handler stands
    frame,      \* frame[r]: the local variables of invocation r
    res,        \* res[r]: the response sent by invocation r, status 0 for none
    log,        \* log[r]: the calls and console lines of invocation r, in order
    vin,        \* arguments of a direct call of verifySlackRequest
    vout,       \* its result
    ein,        \* text of a direct call of the extractors
    eout,       \* their results
    cin,        \* arguments of a direct call of hasAlreadyApproved
    cout        \* its result

vars == <<env, store, reviews, req, pc, frame, res, log, vin, vout, ein, eout, cin, cout>>

NoRes == [status |-> 0, challenge |-> "none"]
Reply(status) == [status |-> status, challenge |-> "none"]
ChallengeReply(challenge) == [status |-> 200, challenge |-> challenge]

InitFrame ==
    [body |-> JSyntaxError, botUserId |-> "unset", mentionedUsers |-> <<>>,
     prs |-> <<>>, ui |-> 0, pj |-> 0, userInfo |-> NoRow, anySuccess |-> FALSE,
     approvalResults |-> <<>>]

\* no call of the extractors was made
NoExtractCall == [called |-> FALSE, mentions |-> <<>>, prs |-> <<>>]

NoVerifyCall ==
    [active |-> FALSE, body |-> <<>>, timestamp |-> TsAbsent, signature |-> SigAbsent,
     signingSecret |-> <<>>]

\* no direct call of hasAlreadyApproved is under way
NoCheckCall == [active |-> FALSE, listOk |-> TRUE, reviewList |-> <<>>, githubUsername |-> ""]

\* one line of log[r]; ui and pj are the loop positions it was written at
Lg(r, op, id, token, pr, result) ==
    [op |-> op, id |-> id, token |-> token, pr |-> pr, result |-> result,
     ui |-> frame[r].ui, pj |-> frame[r].pj]

\* one delivery, handled by invocation 1
Init ==
    /\ env \in Envs
    /\ store \in Stores
    /\ reviews \in ReviewLists
    /\ req \in {[r \in Reqs |-> IF r = 1 THEN q ELSE NoRequest] : q \in Requests}
    /\ pc = [r \in Reqs |-> IF r = 1 THEN "start" ELSE "idle"]
    /\ frame = [r \in Reqs |-> InitFrame]
    /\ res = [r \in Reqs |-> NoRes]
    /\ log = [r \in Reqs |-> <<>>]
    /\ vin = NoVerifyCall
    /\ vout = "none"
    /\ ein = <<>>
    /\ eout = NoExtractCall
    /\ cin = NoCheckCall
    /\ cout = "none"

\* invocation r moves to newPc with the given locals, response, log lines and review lists
Step(r, newPc, newFrame, newRes, lines, newReviews) ==
    /\ pc' = [pc EXCEPT ![r] = newPc]
    /\ frame' = [frame EXCEPT ![r] = newFrame]
    /\ res' = [res EXCEPT ![r] = newRes]
    /\ log' = [log EXCEPT ![r] = @ \o lines]
    /\ reviews' = newReviews
    /\ UNCHANGED <<env, store, req, vin, vout, ein, eout, cin, cout>>

\* process.env.SLACK_ALLOWED_CHANNELS?.split(',') || []
allowedChannels == IF env.SLACK_ALLOWED_CHANNELS.set THEN env.SLACK_ALLOWED_CHANNELS.parts ELSE <<>>

\* process.env.TRIGGER_EMOJI || 'white_check_mark'
triggerEmoji ==
    IF env.TRIGGER_EMOJI \in {"undefined", ""} THEN "white_check_mark" ELSE env.TRIGGER_EMOJI

\* mutant of ChannelBlocked: no channel is held back
ChannelBlocked_Never(channel) == FALSE

\* allowedChannels.length > 0 && !allowedChannels.includes(channel)
ChannelBlocked(channel) ==
    /\ Len(allowedChannels) > 0
    /\ \A i \in 1..Len(allowedChannels) : allowedChannels[i] # channel

\* mutant of skipVerification: every value of the variable switches the
\* verification off
skipVerification_Truthy == env.SKIP_SLACK_VERIFICATION # "undefined"

\* process.env.SKIP_SLACK_VERIFICATION === 'true'
skipVerification == env.SKIP_SLACK_VERIFICATION = "true"

(***************************************************************************)
(* handler: from the entry to the dispatch                                 *)
(***************************************************************************)
\* method check and configuration check
CheckMethodAndConfig(r) ==
    /\ pc[r] = "start"
    /\ IF req[r].method # "POST"
       THEN Step(r, "done", frame[r], Reply(405), <<>>, reviews)
       ELSE IF env.SLACK_SIGNING_SECRET = <<>> \/ env.SLACK_BOT_TOKEN = ""
       THEN Step(r, "done", frame[r], Reply(500), <<>>, reviews)
       ELSE Step(r, "parse", frame[r], res[r], <<>>, reviews)

\* getRawBody and the JSON / form / nested-payload parse; an exception of the
\* nested JSON.parse is not caught and rejects the handler
ParseBody(r) ==
    /\ pc[r] = "parse"
    /\ LET p == ParseRequestBody(req[r].rawBody)
       IN  IF p.threw
           THEN Step(r, "threw", frame[r], res[r],
                     <<Lg(r, "parseBody", "", "", NoPR, "throw")>>, reviews)
           ELSE Step(r, "challenge", [frame[r] EXCEPT !.body = p.body], res[r],
                     <<Lg(r, "parseBody", "", "", NoPR, "ok")>>, reviews)

\* mutant of HandleChallenge: the challenge is not recognised before the
\* signature check
HandleChallenge_NoBypass(r) ==
    /\ pc[r] = "challenge"
    /\ IF frame[r].body.jk = "null"
       THEN Step(r, "threw", frame[r], res[r], <<>>, reviews)
       ELSE Step(r, "auth", frame[r], res[r], <<>>, reviews)

\* body.type === 'url_verification'; reading .type of null throws
HandleChallenge(r) ==
    /\ pc[r] = "challenge"
    /\ LET body == frame[r].body
       IN  IF body.jk = "null"
           THEN Step(r, "threw", frame[r], res[r], <<>>, reviews)
           ELSE IF body.type = "url_verification"
           THEN Step(r, "done", frame[r], ChallengeReply(body.challenge), <<>>, reviews)
           ELSE Step(r, "auth", frame[r], res[r], <<>>, reviews)

\* mutant of MissingHeaders: the headers are not tested
MissingHeaders_Never(timestamp, signature) == FALSE

\* !timestamp || !signature
MissingHeaders(timestamp, signature) == timestamp.s = "absent" \/ signature.len = 0

\* mutant of Authenticate: the invalid signature is logged but the handler
\* does not return
Authenticate_NoReturn(r) ==
    /\ pc[r] = "auth"
    /\ LET timestamp == req[r].timestamp
           signature == req[r].signature
           valid == verifySlackRequest(BodyText(req[r].rawBody), timestamp, signature,
                                       env.SLACK_SIGNING_SECRET, Now)
       IN  IF timestamp.s = "absent" \/ signature.len = 0
           THEN Step(r, "done", frame[r], Reply(401), <<>>, reviews)
           ELSE IF skipVerification
           THEN Step(r, "dispatch", frame[r], res[r],
                     <<Lg(r, "warn", "", "", NoPR, "verification disabled")>>, reviews)
           ELSE Step(r, "dispatch", frame[r], res[r],
                     <<Lg(r, "verifySlackRequest", "", "", NoPR,
                          IF valid THEN "true" ELSE "false")>>, reviews)

\* header check, escape hatch and signature verification
Authenticate(r) ==
    /\ pc[r] = "auth"
    /\ LET timestamp == req[r].timestamp
           signature == req[r].signature
           valid == verifySlackRequest(BodyText(req[r].rawBody), timestamp, signature,
                                       env.SLACK_SIGNING_SECRET, Now)
       IN  IF MissingHeaders(timestamp, signature)
           THEN Step(r, "done", frame[r], Reply(401), <<>>, reviews)
           ELSE IF skipVerification
           THEN Step(r, "dispatch", frame[r], res[r],
                     <<Lg(r, "warn", "", "", NoPR, "verification disabled")>>, reviews)
           ELSE IF ~valid
           THEN Step(r, "done", frame[r], Reply(401),
                     <<Lg(r, "verifySlackRequest", "", "", NoPR, "false")>>, reviews)
           ELSE Step(r, "dispatch", frame[r], res[r],
                     <<Lg(r, "verifySlackRequest", "", "", NoPR, "true")>>, reviews)

\* body.type === 'event_callback', else the default response; reading
\* event.type of an absent event throws
Dispatch(r) ==
    /\ pc[r] = "dispatch"
    /\ LET body == frame[r].body
       IN  IF body.type # "event_callback"
           THEN Step(r, "done", frame[r], Reply(200), <<>>, reviews)
           ELSE IF ~body.event.defined
           THEN Step(r, "threw", frame[r], res[r], <<>>, reviews)
           ELSE Step(r, "getBotUserId", frame[r], res[r], <<>>, reviews)

\* auth.test: the bot's user id, or null when the call fails
getBotUserId(ok) == IF ok THEN BotId ELSE "null"

GetBotUserId(r) ==
    /\ pc[r] = "getBotUserId"
    /\ \E ok \in BOOLEAN :
         Step(r, "route", [frame[r] EXCEPT !.botUserId = getBotUserId(ok)], res[r],
              <<Lg(r, "getBotUserId", "", BotToken, NoPR, getBotUserId(ok))>>, reviews)

\* mutant of SelfEvent: without a bot id every actor is taken for the bot
SelfEvent_FailClosed(event, botUserId) == event.user = botUserId \/ botUserId = "null"

\* senderId === botUserId, event.user === botUserId
SelfEvent(event, botUserId) == event.user = botUserId

\* mutant of NotTrigger: every reaction name is taken for the trigger
NotTrigger_Never(event) == FALSE

\* event.reaction !== triggerEmoji
NotTrigger(event) == event.reaction # triggerEmoji

\* mutant of NothingToApprove: the flow starts whatever was extracted
NothingToApprove_Never(mentionedUsers, prs) == FALSE

\* mentionedUsers.length === 0, then prs.length === 0
NothingToApprove(mentionedUsers, prs) == Len(mentionedUsers) = 0 \/ Len(prs) = 0

\* the synchronous filters of the message branch and of the reaction branch
RouteEvent(r) ==
    /\ pc[r] = "route"
    /\ LET event == frame[r].body.event
           botUserId == frame[r].botUserId
           mentionedUsers == extractUserMentions(event.text)
           prs == extractPRs(event.text)
           ignore == Step(r, "done", frame[r], Reply(200), <<>>, reviews)
       IN  IF event.type = "message" /\ event.subtype = "undefined"
           THEN IF SelfEvent(event, botUserId) THEN ignore
                ELSE IF ChannelBlocked(event.channel) THEN ignore
                ELSE IF NothingToApprove(mentionedUsers, prs) THEN ignore
                ELSE Step(r, "mInit",
                          [frame[r] EXCEPT !.mentionedUsers = mentionedUsers, !.prs = prs],
                          res[r], <<>>, reviews)
           ELSE IF event.type # "reaction_added" THEN ignore
           ELSE IF SelfEvent(event, botUserId) THEN ignore
           ELSE IF NotTrigger(event) THEN ignore
           ELSE IF ChannelBlocked(event.channel) THEN ignore
           ELSE Step(r, "rInit", frame[r], res[r], <<>>, reviews)

(***************************************************************************)
(* Credential store (lib/db.ts)                                            *)
(***************************************************************************)
DbOutcomes == {"ok", "queryError", "connectError"}

\* mutant of getUserInfo: the query has lost its WHERE clause and returns
\* the first row of the table
getUserInfo_FirstRow(slackUserId, outcome) ==
    [threw |-> outcome = "connectError",
     info |-> IF outcome = "ok" /\ store # <<>>
              THEN Row(store[1].github_token, store[1].github_username)
              ELSE NoRow]

\* getUserInfo: the row, null when there is none or the query fails (the
\* catch returns null); getPool().connect() is outside the try and throws
getUserInfo(slackUserId, outcome) ==
    [threw |-> outcome = "connectError",
     info |-> IF outcome = "ok" THEN SelectUserInfo(store, slackUserId) ELSE NoRow]

\* mutant of storeUserToken: a plain INSERT, without the ON CONFLICT clause
storeUserToken_PlainInsert(rows, slackUserId, githubToken, githubUsername) ==
    Append(rows, TableRow(slackUserId, githubToken, githubUsername))

\* INSERT ... ON CONFLICT (slack_user_id) DO UPDATE SET github_token = $2,
\* github_username = $3
storeUserToken(rows, slackUserId, githubToken, githubUsername) ==
    IF \E i \in 1..Len(rows) : rows[i].slack_user_id = slackUserId
    THEN [i \in 1..Len(rows) |->
             IF rows[i].slack_user_id = slackUserId
             THEN TableRow(slackUserId, githubToken, githubUsername)
             ELSE rows[i]]
    ELSE Append(rows, TableRow(slackUserId, githubToken, githubUsername))

\* DELETE FROM user_tokens WHERE slack_user_id = $1
deleteUserToken(rows, slackUserId) ==
    SelectSeq(rows, LAMBDA row : row.slack_user_id # slackUserId)

(***************************************************************************)
(* handler: the @mention approval flow                                     *)
(***************************************************************************)
\* for (const mentionedUserId of mentionedUsers): the next user, or the end
MentionNextUser(f) ==
    IF f.ui < Len(f.mentionedUsers)
    THEN [pc |-> "mUser", frame |-> [f EXCEPT !.ui = f.ui + 1, !.pj = 0]]
    ELSE [pc |-> "mFinish", frame |-> f]

\* mutant of MentionNextPR: the references are taken from the last to the first
MentionNextPR_Backwards(f) ==
    IF f.pj = 0 /\ Len(f.prs) > 0
    THEN [pc |-> "mCheck", frame |-> [f EXCEPT !.pj = Len(f.prs)]]
    ELSE IF f.pj > 1
    THEN [pc |-> "mCheck", frame |-> [f EXCEPT !.pj = f.pj - 1]]
    ELSE MentionNextUser(f)

\* for (const pr of prs): the next reference, or the next user
MentionNextPR(f) ==
    IF f.pj < Len(f.prs)
    THEN [pc |-> "mCheck", frame |-> [f EXCEPT !.pj = f.pj + 1]]
    ELSE MentionNextUser(f)

\* mutant of MentionInit: the catch of the mention flow answers 500
MentionInit_Error500(r) ==
    /\ pc[r] = "mInit"
    /\ \E ok \in BOOLEAN :
         IF ok
         THEN LET n == MentionNextUser(frame[r])
              IN  Step(r, n.pc, n.frame, res[r],
                       <<Lg(r, "initializeDatabase", "", "", NoPR, "ok")>>, reviews)
         ELSE Step(r, "done", frame[r], Reply(500),
                   <<Lg(r, "initializeDatabase", "", "", NoPR, "throw")>>, reviews)

\* await initializeDatabase() inside the try of the mention flow
MentionInit(r) ==
    /\ pc[r] = "mInit"
    /\ \E ok \in BOOLEAN :
         IF ok
         THEN LET n == MentionNextUser(frame[r])
              IN  Step(r, n.pc, n.frame, res[r],
                       <<Lg(r, "initializeDatabase", "", "", NoPR, "ok")>>, reviews)
         ELSE Step(r, "done", frame[r], Reply(200),
                   <<Lg(r, "initializeDatabase", "", "", NoPR, "throw")>>, reviews)

\* const userInfo = await getUserInfo(mentionedUserId)
MentionGetUserInfo(r) ==
    /\ pc[r] = "mUser"
    /\ \E outcome \in DbOutcomes :
         LET f == frame[r]
             mentionedUserId == f.mentionedUsers[f.ui]
             got == getUserInfo(mentionedUserId, outcome)
             line == Lg(r, "getUserInfo", mentionedUserId, got.info.token, NoPR,
                        IF got.threw THEN "throw" ELSE IF got.info.found THEN "row" ELSE "null")
         IN  IF got.threw
             THEN Step(r, "done", f, Reply(200), <<line>>, reviews)
             ELSE IF ~got.info.found
             THEN Step(r, "mNoAcctDM", f, res[r], <<line>>, reviews)
             ELSE LET n == MentionNextPR([f EXCEPT !.userInfo = got.info])
                  IN  Step(r, n.pc, n.frame, res[r], <<line>>, reviews)

\* mutant of MentionNoAccountDM: the request ends after the notice
MentionNoAccountDM_Abort(r) ==
    /\ pc[r] = "mNoAcctDM"
    /\ \E sent \in BOOLEAN :
         Step(r, "done", frame[r], Reply(200),
              <<Lg(r, "sendDM", frame[r].body.event.user, BotToken, NoPR,
                   IF sent THEN "connect:sent" ELSE "connect:failed")>>, reviews)

\* the DM to the sender about a mentioned user without a GitHub account
MentionNoAccountDM(r) ==
    /\ pc[r] = "mNoAcctDM"
    /\ \E sent \in BOOLEAN :
         LET f == frame[r]
             n == MentionNextUser(f)
         IN  Step(r, n.pc, n.frame, res[r],
                  <<Lg(r, "sendDM", f.body.event.user, BotToken, NoPR,
                       IF sent THEN "connect:sent" ELSE "connect:failed")>>, reviews)

\* mutant of MentionCheck: a skip does not count as a success
MentionCheck_SkipNotCounted(r) ==
    /\ pc[r] = "mCheck"
    /\ \E listOk \in BOOLEAN :
         LET f == frame[r]
             pr == f.prs[f.pj]
             mentionedUserId == f.mentionedUsers[f.ui]
             alreadyApproved == hasAlreadyApproved(listOk, reviews[pr], f.userInfo.username)
             line == Lg(r, "hasAlreadyApproved", mentionedUserId, f.userInfo.token, pr,
                        IF ~listOk THEN "error" ELSE IF alreadyApproved THEN "true" ELSE "false")
         IN  IF alreadyApproved
             THEN LET n == MentionNextPR(f)
                  IN  Step(r, n.pc, n.frame, res[r],
                           <<line, Lg(r, "skipped", mentionedUserId, f.userInfo.token, pr, "")>>,
                           reviews)
             ELSE Step(r, "mApprove", f, res[r], <<line>>, reviews)

\* hasAlreadyApproved, and the skip when it answers true
MentionCheck(r) ==
    /\ pc[r] = "mCheck"
    /\ \E listOk \in BOOLEAN :
         LET f == frame[r]
             pr == f.prs[f.pj]
             mentionedUserId == f.mentionedUsers[f.ui]
             alreadyApproved == hasAlreadyApproved(listOk, reviews[pr], f.userInfo.username)
             line == Lg(r, "hasAlreadyApproved", mentionedUserId, f.userInfo.token, pr,
                        IF ~listOk THEN "error" ELSE IF alreadyApproved THEN "true" ELSE "false")
         IN  IF alreadyApproved
             THEN LET n == MentionNextPR([f EXCEPT !.anySuccess = TRUE])
                  IN  Step(r, n.pc, n.frame, res[r],
                           <<line, Lg(r, "skipped", mentionedUserId, f.userInfo.token, pr, "")>>,
                           reviews)
             ELSE Step(r, "mApprove", f, res[r], <<line>>, reviews)

\* mutant of MentionApprove: a credential whose approval call fails is
\* deleted from the store
MentionApprove_DropsCredential(r) ==
    /\ pc[r] = "mApprove"
    /\ \E ok \in BOOLEAN :
         LET f == frame[r]
             pr == f.prs[f.pj]
             mentionedUserId == f.mentionedUsers[f.ui]
             token == f.userInfo.token
             line == Lg(r, "createReview", mentionedUserId, token, pr,
                        IF ok THEN "ok" ELSE "throw")
             n == MentionNextPR([f EXCEPT !.anySuccess = TRUE])
         IN  /\ pc' = [pc EXCEPT ![r] = IF ok THEN n.pc ELSE "mFailDM"]
             /\ frame' = [frame EXCEPT ![r] = IF ok THEN n.frame ELSE f]
             /\ log' = [log EXCEPT ![r] = Append(@, line)]
             /\ reviews' = IF ok
                           THEN [reviews EXCEPT ![pr] =
                                    Append(@, Review(TokenLogin(token), "APPROVED"))]
                           ELSE reviews
             /\ store' = IF ok THEN store
                         ELSE SelectSeq(store, LAMBDA row : row.slack_user_id # mentionedUserId)
             /\ UNCHANGED <<env, req, res, vin, vout, ein, eout, cin, cout>>

\* octokit.pulls.createReview({..., event: 'APPROVE'}) with the user's token
MentionApprove(r) ==
    /\ pc[r] = "mApprove"
    /\ \E ok \in BOOLEAN :
         LET f == frame[r]
             pr == f.prs[f.pj]
             mentionedUserId == f.mentionedUsers[f.ui]
             token == f.userInfo.token
             line == Lg(r, "createReview", mentionedUserId, token, pr,
                        IF ok THEN "ok" ELSE "throw")
         IN  IF ok
             THEN LET n == MentionNextPR([f EXCEPT !.anySuccess = TRUE])
                  IN  Step(r, n.pc, n.frame, res[r], <<line>>,
                           [reviews EXCEPT ![pr] = Append(@, Review(TokenLogin(token), "APPROVED"))])
             ELSE Step(r, "mFailDM", f, res[r], <<line>>, reviews)

\* mutant of MentionFailDM: a DM that cannot be sent throws into the outer
\* catch of the flow
MentionFailDM_Propagates(r) ==
    /\ pc[r] = "mFailDM"
    /\ \E sent \in BOOLEAN :
         LET f == frame[r]
             n == MentionNextPR(f)
             line == Lg(r, "sendDM", f.body.event.user, BotToken, f.prs[f.pj],
                        IF sent THEN "failed:sent" ELSE "failed:failed")
         IN  IF sent
             THEN Step(r, n.pc, n.frame, res[r], <<line>>, reviews)
             ELSE Step(r, "done", f, Reply(200), <<line>>, reviews)

\* the catch of the per-reference try: the failure DM to the sender
MentionFailDM(r) ==
    /\ pc[r] = "mFailDM"
    /\ \E sent \in BOOLEAN :
         LET f == frame[r]
             n == MentionNextPR(f)
         IN  Step(r, n.pc, n.frame, res[r],
                  <<Lg(r, "sendDM", f.body.event.user, BotToken, f.prs[f.pj],
                       IF sent THEN "failed:sent" ELSE "failed:failed")>>, reviews)

\* outcomes of reactions.add as addReaction sees them
ReactionOutcomes == {"ok", "already_reacted", "error"}

\* mutant of addReaction: already_reacted counts as a failure
addReaction_OkOnly(outcome) == outcome = "ok"

\* addReaction: true when the call succeeds or answers already_reacted
addReaction(outcome) == outcome \in {"ok", "already_reacted"}

\* mutant of MentionFinish: the reaction is added whatever anySuccess says
MentionFinish_Always(r) ==
    /\ pc[r] = "mFinish"
    /\ \E outcome \in ReactionOutcomes :
         Step(r, "done", frame[r], Reply(200),
              <<Lg(r, "reactions.add", frame[r].body.event.channel, BotToken, NoPR, outcome),
                Lg(r, "addReaction", frame[r].body.event.channel, BotToken, NoPR,
                   IF addReaction(outcome) THEN "true" ELSE "false")>>, reviews)

\* if (anySuccess) await addReaction(...); then the 200.  The log keeps the
\* answer of reactions.add and, after it, what addReaction returned
MentionFinish(r) ==
    /\ pc[r] = "mFinish"
    /\ LET f == frame[r]
           event == f.body.event
       IN  IF f.anySuccess
           THEN \E outcome \in ReactionOutcomes :
                  Step(r, "done", f, Reply(200),
                       <<Lg(r, "reactions.add", event.channel, BotToken, NoPR, outcome),
                         Lg(r, "addReaction", event.channel, BotToken, NoPR,
                            IF addReaction(outcome) THEN "true" ELSE "false")>>, reviews)
           ELSE Step(r, "done", f, Reply(200), <<>>, reviews)

(***************************************************************************)
(* handler: the reaction approval flow                                     *)
(***************************************************************************)
\* the next reference of the for-loop, or the summary and the 200 after it
ReactionNextPR(f) ==
    IF f.pj < Len(f.prs)
    THEN [pc |-> "rCheck", frame |-> [f EXCEPT !.pj = f.pj + 1], res |-> NoRes]
    ELSE [pc |-> "done", frame |-> f, res |-> Reply(200)]

\* await initializeDatabase() inside the try of the reaction flow
ReactionInit(r) ==
    /\ pc[r] = "rInit"
    /\ \E ok \in BOOLEAN :
         IF ok
         THEN Step(r, "rUser", frame[r], res[r],
                   <<Lg(r, "initializeDatabase", "", "", NoPR, "ok")>>, reviews)
         ELSE Step(r, "rErrDM", frame[r], res[r],
                   <<Lg(r, "initializeDatabase", "", "", NoPR, "throw")>>, reviews)

\* const userInfo = await getUserInfo(event.user)
ReactionGetUserInfo(r) ==
    /\ pc[r] = "rUser"
    /\ \E outcome \in DbOutcomes :
         LET f == frame[r]
             event == f.body.event
             got == getUserInfo(event.user, outcome)
             line == Lg(r, "getUserInfo", event.user, got.info.token, NoPR,
                        IF got.threw THEN "throw" ELSE IF got.info.found THEN "row" ELSE "null")
         IN  IF got.threw
             THEN Step(r, "rErrDM", f, res[r], <<line>>, reviews)
             ELSE IF ~got.info.found
             THEN Step(r, "rNoAcctDM", f, res[r], <<line>>, reviews)
             ELSE Step(r, "rGetMessage", [f EXCEPT !.userInfo = got.info], res[r],
                       <<line>>, reviews)

\* the DM asking the reacting user to connect, then a bare return
ReactionNoAccountDM(r) ==
    /\ pc[r] = "rNoAcctDM"
    /\ \E sent \in BOOLEAN :
         LET f == frame[r]
         IN  Step(r, "done", f, res[r],
                  <<Lg(r, "sendDM", f.body.event.user, BotToken, NoPR,
                       IF sent THEN "connect:sent" ELSE "connect:failed")>>, reviews)

\* what conversations.history can give getMessage: a text, or null on failure
FetchedTexts == Texts \ {NoText}

\* getMessage and extractPRs; a bare return when there is no text or no reference
ReactionGetMessage(r) ==
    /\ pc[r] = "rGetMessage"
    /\ \E fetched \in BOOLEAN, messageText \in FetchedTexts :
         LET f == frame[r]
             event == f.body.event
             prs == extractPRs(messageText)
             line == Lg(r, "getMessage", event.channel, BotToken, NoPR,
                        IF fetched THEN "text" ELSE "null")
         IN  IF ~fetched
             THEN Step(r, "done", f, res[r], <<line>>, reviews)
             ELSE IF Len(prs) = 0
             THEN Step(r, "done", f, res[r], <<line>>, reviews)
             ELSE LET n == ReactionNextPR([f EXCEPT !.prs = prs])
                  IN  Step(r, n.pc, n.frame, res[r], <<line>>, reviews)

\* mutant of ReactionCheck: the approval is attempted without the check
ReactionCheck_NoCheck(r) ==
    /\ pc[r] = "rCheck"
    /\ Step(r, "rApprove", frame[r], res[r], <<>>, reviews)

\* hasAlreadyApproved, and the skip when it answers true
ReactionCheck(r) ==
    /\ pc[r] = "rCheck"
    /\ \E listOk \in BOOLEAN :
         LET f == frame[r]
             pr == f.prs[f.pj]
             user == f.body.event.user
             alreadyApproved == hasAlreadyApproved(listOk, reviews[pr], f.userInfo.username)
             line == Lg(r, "hasAlreadyApproved", user, f.userInfo.token, pr,
                        IF ~listOk THEN "error" ELSE IF alreadyApproved THEN "true" ELSE "false")
         IN  IF alreadyApproved
             THEN LET n == ReactionNextPR(
                             [f EXCEPT !.approvalResults =
                                 Append(@, [pr |-> pr, status |-> "skipped"])])
                  IN  Step(r, n.pc, n.frame, n.res,
                           <<line, Lg(r, "skipped", user, f.userInfo.token, pr, "")>>, reviews)
             ELSE Step(r, "rApprove", f, res[r], <<line>>, reviews)

\* mutant of ReactionApprove: a seen-event cache; the approval call is left
\* out when another invocation is about to approve the same pair
ReactionApprove_SeenCache(r) ==
    /\ pc[r] = "rApprove"
    /\ \E ok \in BOOLEAN :
         LET f == frame[r]
             pr == f.prs[f.pj]
             user == f.body.event.user
             token == f.userInfo.token
             seen == \E o \in Reqs \ {r} :
                         /\ pc[o] = "rApprove"
                         /\ frame[o].body.event.user = user
                         /\ frame[o].prs[frame[o].pj] = pr
             line == Lg(r, IF seen THEN "skipped" ELSE "createReview", user, token, pr,
                        IF seen THEN "" ELSE IF ok THEN "ok" ELSE "throw")
             n == ReactionNextPR(
                     [f EXCEPT !.approvalResults =
                         Append(@, [pr |-> pr, status |-> IF seen THEN "skipped"
                                                          ELSE IF ok THEN "success"
                                                          ELSE "failed"])])
         IN  Step(r, n.pc, n.frame, n.res, <<line>>,
                  IF ok /\ ~seen
                  THEN [reviews EXCEPT ![pr] = Append(@, Review(TokenLogin(token), "APPROVED"))]
                  ELSE reviews)

\* octokit.pulls.createReview({..., event: 'APPROVE'}) with the user's token
ReactionApprove(r) ==
    /\ pc[r] = "rApprove"
    /\ \E ok \in BOOLEAN :
         LET f == frame[r]
             pr == f.prs[f.pj]
             user == f.body.event.user
             token == f.userInfo.token
             line == Lg(r, "createReview", user, token, pr, IF ok THEN "ok" ELSE "throw")
             n == ReactionNextPR(
                     [f EXCEPT !.approvalResults =
                         Append(@, [pr |-> pr, status |-> IF ok THEN "success" ELSE "failed"])])
         IN  Step(r, n.pc, n.frame, n.res, <<line>>,
                  IF ok
                  THEN [reviews EXCEPT ![pr] = Append(@, Review(TokenLogin(token), "APPROVED"))]
                  ELSE reviews)

\* the outer catch: the error DM to the reacting user, then the 200
ReactionErrorDM(r) ==
    /\ pc[r] = "rErrDM"
    /\ \E sent \in BOOLEAN :
         LET f == frame[r]
         IN  Step(r, "done", f, Reply(200),
                  <<Lg(r, "sendDM", f.body.event.user, BotToken, NoPR,
                       IF sent THEN "error:sent" ELSE "error:failed")>>, reviews)

(***************************************************************************)
(* Specification of the events endpoint                                    *)
(***************************************************************************)
Handler(r) ==
    \/ CheckMethodAndConfig(r)
    \/ ParseBody(r)
    \/ HandleChallenge(r)
    \/ Authenticate(r)
    \/ Dispatch(r)
    \/ GetBotUserId(r)
    \/ RouteEvent(r)
    \/ MentionInit(r)
    \/ MentionGetUserInfo(r)
    \/ MentionNoAccountDM(r)
    \/ MentionCheck(r)
    \/ MentionApprove(r)
    \/ MentionFailDM(r)
    \/ MentionFinish(r)
    \/ ReactionInit(r)
    \/ ReactionGetUserInfo(r)
    \/ ReactionNoAccountDM(r)
    \/ ReactionGetMessage(r)
    \/ ReactionCheck(r)
    \/ ReactionApprove(r)
    \/ ReactionErrorDM(r)

Next == \E r \in Reqs : Handler(r)

Spec == Init /\ [][Next]_vars

(***************************************************************************)
(* Specification of a double delivery: the same webhook is delivered       *)
(* twice and the two deliveries are handled by concurrent invocations of   *)
(* handler, which share nothing but the store and the remote reviews       *)
(***************************************************************************)
\* a correctly signed delivery of the body
SignedDelivery(rawBody) ==
    [method |-> "POST", rawBody |-> rawBody, timestamp |-> TsNum(Now),
     signature |-> ComputeSignature(BodyText(rawBody), TsNum(Now), TheSecret)]

\* a trigger reaction of U1, and a message of U3 that mentions U1 with one link
DupWebhooks ==
    {SignedDelivery(Json(JBody("event_callback", "undefined",
        Ev("reaction_added", "undefined", "U1", "C1", "ts1", NoText, "white_check_mark")))),
     SignedDelivery(Json(JBody("event_callback", "undefined",
        Ev("message", "undefined", "U3", "C1", "ts1", TxtOne, "undefined"))))}

InitDup ==
    /\ env = MkEnv(TheSecret, BotToken, "undefined", EnvUnset)
    /\ store \in {s \in Stores : SelectUserInfo(s, "U1").found}
    /\ reviews \in ReviewLists
    /\ req \in {[r \in Reqs |-> q] : q \in DupWebhooks}
    /\ pc = [r \in Reqs |-> "start"]
    /\ frame = [r \in Reqs |-> InitFrame]
    /\ res = [r \in Reqs |-> NoRes]
    /\ log = [r \in Reqs |-> <<>>]
    /\ vin = NoVerifyCall
    /\ vout = "none"
    /\ ein = <<>>
    /\ eout = NoExtractCall
    /\ cin = NoCheckCall
    /\ cout = "none"

SpecDup == InitDup /\ [][Next]_vars

(***************************************************************************)
(* Specification of the authenticator alone: one call of                   *)
(* verifySlackRequest on arguments drawn from bounded sets                 *)
(***************************************************************************)
VerifyBodies == SeqsUpTo(Chars, MaxLen)
VerifySecrets == SeqsUpTo(Chars, MaxLen)

\* on both edges of the replay window, and one parseInt cannot read
VerifyTimestamps ==
    {TsNum(Now + d) : d \in {-(ReplayWindow + 1), -ReplayWindow, 0, ReplayWindow, ReplayWindow + 1}}
    \cup {TsNaN}

\* the signature of the call's own body and secret, the signatures of every
\* body and of every secret one character apart, the signature of another
\* timestamp, and bytes that are no signature
VerifySignatures(body, timestamp, signingSecret) ==
    {ComputeSignature(body, timestamp, signingSecret)}
    \cup {ComputeSignature(b, timestamp, signingSecret) :
             b \in {x \in VerifyBodies : OneCharApart(x, body)}}
    \cup {ComputeSignature(body, timestamp, k) :
             k \in {x \in VerifySecrets : OneCharApart(x, signingSecret)}}
    \cup {ComputeSignature(body, TsNum(Now - 1), signingSecret),
          SigJunk(SigPrefixLen + HexDigestLen), SigJunk(SigPrefixLen)}

VerifyCalls ==
    UNION {{[active |-> TRUE, body |-> b, timestamp |-> t, signature |-> sg,
             signingSecret |-> k] : sg \in VerifySignatures(b, t, k)} :
           b \in VerifyBodies, k \in VerifySecrets, t \in VerifyTimestamps}

InitVerify ==
    /\ env = MkEnv(TheSecret, BotToken, "undefined", EnvUnset)
    /\ store = <<>>
    /\ reviews = [p \in PRs |-> <<>>]
    /\ req = [r \in Reqs |-> NoRequest]
    /\ pc = [r \in Reqs |-> "idle"]
    /\ frame = [r \in Reqs |-> InitFrame]
    /\ res = [r \in Reqs |-> NoRes]
    /\ log = [r \in Reqs |-> <<>>]
    /\ vin \in VerifyCalls
    /\ vout = "none"
    /\ ein = <<>>
    /\ eout = NoExtractCall
    /\ cin = NoCheckCall
    /\ cout = "none"

VerifyCall ==
    /\ vin.active
    /\ vout = "none"
    /\ vout' = IF verifySlackRequest(vin.body, vin.timestamp, vin.signature,
                                     vin.signingSecret, Now)
               THEN "true" ELSE "false"
    /\ UNCHANGED <<env, store, reviews, req, pc, frame, res, log, vin, ein, eout, cin, cout>>

NextVerify == VerifyCall

SpecVerify == InitVerify /\ [][NextVerify]_vars

(***************************************************************************)
(* Specification of the extractors alone: one call of extractUserMentions  *)
(* and of extractPRs on a text drawn from a bounded set                    *)
(***************************************************************************)
\* a url in which both patterns find a match
BothUrl == <<"app.graphite.com", "github", "pr", "acme", "gadgets", "7",
             "github.com", "acme", "widgets", "pull", "42">>

ExtractTokens ==
    {Mention("U1", FALSE), Mention("U1", TRUE), Mention("U2", FALSE), Mention("u2", FALSE),
     Word, Bare(GH1), Wrapped(GH1, TRUE), Bare(GR1), Wrapped(GH2, FALSE), Bare(DocUrl),
     Bare(BothUrl)}

ExtractTexts == SeqsUpTo(ExtractTokens, MaxTextLen)

InitExtract ==
    /\ env = MkEnv(TheSecret, BotToken, "undefined", EnvUnset)
    /\ store = <<>>
    /\ reviews = [p \in PRs |-> <<>>]
    /\ req = [r \in Reqs |-> NoRequest]
    /\ pc = [r \in Reqs |-> "idle"]
    /\ frame = [r \in Reqs |-> InitFrame]
    /\ res = [r \in Reqs |-> NoRes]
    /\ log = [r \in Reqs |-> <<>>]
    /\ vin = NoVerifyCall
    /\ vout = "none"
    /\ ein \in ExtractTexts
    /\ eout = NoExtractCall
    /\ cin = NoCheckCall
    /\ cout = "none"

ExtractCall ==
    /\ ~eout.called
    /\ eout' = [called |-> TRUE, mentions |-> extractUserMentions(ein), prs |-> extractPRs(ein)]
    /\ UNCHANGED <<env, store, reviews, req, pc, frame, res, log, vin, vout, ein, cin, cout>>

NextExtract == ExtractCall

SpecExtract == InitExtract /\ [][NextExtract]_vars

(***************************************************************************)
(* Specification of the checker alone: one call of hasAlreadyApproved on a *)
(* review list drawn from a bounded set                                    *)
(***************************************************************************)
MaxReviews == 3

\* review.user is null for a review whose author's account was deleted
NoLogin == "undefined"

ReviewLogins == {"alice", "ALICE", "bob", NoLogin}

ReviewStates == {"APPROVED", "CHANGES_REQUESTED", "COMMENTED"}

CheckUsernames == {"alice", "Alice", "bob"}

CheckCalls ==
    {[active |-> TRUE, listOk |-> ok, reviewList |-> rl, githubUsername |-> u] :
        ok \in BOOLEAN,
        rl \in SeqsUpTo({Review(l, st) : l \in ReviewLogins, st \in ReviewStates}, MaxReviews),
        u \in CheckUsernames}

InitCheck ==
    /\ env = MkEnv(TheSecret, BotToken, "undefined", EnvUnset)
    /\ store = <<>>
    /\ reviews = [p \in PRs |-> <<>>]
    /\ req = [r \in Reqs |-> NoRequest]
    /\ pc = [r \in Reqs |-> "idle"]
    /\ frame = [r \in Reqs |-> InitFrame]
    /\ res = [r \in Reqs |-> NoRes]
    /\ log = [r \in Reqs |-> <<>>]
    /\ vin = NoVerifyCall
    /\ vout = "none"
    /\ ein = <<>>
    /\ eout = NoExtractCall
    /\ cin \in CheckCalls
    /\ cout = "none"

CheckCall ==
    /\ cin.active
    /\ cout = "none"
    /\ cout' = IF hasAlreadyApproved(cin.listOk, cin.reviewList, cin.githubUsername)
               THEN "true" ELSE "false"
    /\ UNCHANGED <<env, store, reviews, req, pc, frame, res, log, vin, vout, ein, eout, cin>>

NextCheck == CheckCall

SpecCheck == InitCheck /\ [][NextCheck]_vars

(***************************************************************************)
(* Specification of the credential store alone: a bounded sequence of      *)
(* storeUserToken, deleteUserToken and getUserInfo calls on an empty table *)
(***************************************************************************)
MaxOps == 3

StoreIds == {"U1", "U2"}

\* credentials the connect command can store
StoreCredentials == {Row("ghp_alice", "alice"), Row("ghp_alice2", "Alice")}

\* one call on the store, as log[1] keeps it
StoreLg(op, id, row, result) ==
    [op |-> op, id |-> id, token |-> row.token, username |-> row.username, result |-> result]

InitStore ==
    /\ env = MkEnv(TheSecret, BotToken, "undefined", EnvUnset)
    /\ store = <<>>
    /\ reviews = [p \in PRs |-> <<>>]
    /\ req = [r \in Reqs |-> NoRequest]
    /\ pc = [r \in Reqs |-> IF r = 1 THEN "store" ELSE "idle"]
    /\ frame = [r \in Reqs |-> InitFrame]
    /\ res = [r \in Reqs |-> NoRes]
    /\ log = [r \in Reqs |-> <<>>]
    /\ vin = NoVerifyCall
    /\ vout = "none"
    /\ ein = <<>>
    /\ eout = NoExtractCall
    /\ cin = NoCheckCall
    /\ cout = "none"

\* one call on the store by invocation 1; a call whose query fails throws
\* (storeUserToken, deleteUserToken) and leaves the table as it is
StoreStep(newStore, line) ==
    /\ pc[1] = "store"
    /\ Len(log[1]) < MaxOps
    /\ store' = newStore
    /\ log' = [log EXCEPT ![1] = Append(@, line)]
    /\ UNCHANGED <<env, reviews, req, pc, frame, res, vin, vout, ein, eout, cin, cout>>

StoreUserToken ==
    \E id \in StoreIds, c \in StoreCredentials, ok \in BOOLEAN :
        StoreStep(IF ok THEN storeUserToken(store, id, c.token, c.username) ELSE store,
                  StoreLg("storeUserToken", id, c, IF ok THEN "ok" ELSE "throw"))

DeleteUserToken ==
    \E id \in StoreIds, ok \in BOOLEAN :
        StoreStep(IF ok THEN deleteUserToken(store, id) ELSE store,
                  StoreLg("deleteUserToken", id, NoRow, IF ok THEN "ok" ELSE "throw"))

StoreGetUserInfo ==
    \E id \in StoreIds, outcome \in DbOutcomes :
        LET got == getUserInfo(id, outcome)
        IN  StoreStep(store,
                      StoreLg("getUserInfo", id, got.info,
                              IF outcome # "ok" THEN outcome
                              ELSE IF got.info.found THEN "row" ELSE "null"))

NextStore == StoreUserToken \/ DeleteUserToken \/ StoreGetUserInfo

SpecStore == InitStore /\ [][NextStore]_vars

(***************************************************************************)
(* Properties of the authenticator                                         *)
(***************************************************************************)
Stale(timestamp) == timestamp.s = "num" /\ Abs(Now - timestamp.n) > ReplayWindow
Fresh(timestamp) == timestamp.s = "num" /\ Abs(Now - timestamp.n) <= ReplayWindow

\* the signature was computed from (b, k), a single-character mutation of the
\* body or of the secret of the call
MutatedSignature(b, k) ==
    /\ \/ OneCharApart(b, vin.body) /\ k = vin.signingSecret
       \/ b = vin.body /\ OneCharApart(k, vin.signingSecret)
    /\ vin.signature = ComputeSignature(b, vin.timestamp, k)

\* C3: a call whose timestamp is more than 300 seconds from now returns
\* false, whatever the body, the secret and the signature, the correct HMAC
\* of those inputs included.
C3_StaleRejected ==
    (vout # "none" /\ Stale(vin.timestamp)) => vout = "false"

\* a stale call carrying the correct signature has been rejected
C3_Witness ==
    /\ vout = "false"
    /\ Stale(vin.timestamp)
    /\ vin.signature = ComputeSignature(vin.body, vin.timestamp, vin.signingSecret)

\* C4: with a fresh timestamp, the signature computed from the same body,
\* timestamp and secret is accepted, and the signature computed from a body
\* or a secret that differs in a single character is rejected.
C4_RoundTrip ==
    (vout # "none" /\ Fresh(vin.timestamp)) =>
        /\ vin.signature = ComputeSignature(vin.body, vin.timestamp, vin.signingSecret)
              => vout = "true"
        /\ \A b \in VerifyBodies, k \in VerifySecrets :
              MutatedSignature(b, k) => vout = "false"

\* a fresh call signed over a body one character apart has been rejected
C4_Witness ==
    /\ vout = "false"
    /\ Fresh(vin.timestamp)
    /\ \E b \in VerifyBodies : OneCharApart(b, vin.body) /\ MutatedSignature(b, vin.signingSecret)

(***************************************************************************)
(* Properties of the events endpoint                                       *)
(***************************************************************************)
Terminal(r) == pc[r] \in {"done", "threw"}

\* positions of log[r] that hold a line of one of the given kinds
Lines(r, ops) == {i \in 1..Len(log[r]) : log[r][i].op \in ops}

\* calls made after the authentication decision
WorkOps ==
    {"getBotUserId", "initializeDatabase", "getUserInfo", "getMessage",
     "hasAlreadyApproved", "createReview", "sendDM", "addReaction", "skipped"}

ConfigOk == env.SLACK_SIGNING_SECRET # <<>> /\ env.SLACK_BOT_TOKEN # ""

\* the request gets as far as the parse
Served(r) == req[r].method = "POST" /\ ConfigOk

\* the body has a canonical form and reading its type does not throw
Normalizes(r) ==
    /\ ~ParseRequestBody(req[r].rawBody).threw
    /\ ParseRequestBody(req[r].rawBody).body.jk = "object"

CanonicalBody(r) == ParseRequestBody(req[r].rawBody).body

IsChallenge(r) == Served(r) /\ Normalizes(r) /\ CanonicalBody(r).type = "url_verification"

\* a header is missing, the timestamp is stale, or the signature is not the
\* HMAC of the raw body under the signing secret
BadCredentials(r) ==
    \/ req[r].timestamp.s = "absent"
    \/ req[r].signature.len = 0
    \/ Stale(req[r].timestamp)
    \/ req[r].signature #
          ComputeSignature(BodyText(req[r].rawBody), req[r].timestamp, env.SLACK_SIGNING_SECRET)

\* C1: a POST whose canonical body has type url_verification is answered
\* with 200 and the challenge value of the body; verifySlackRequest is not
\* run, the headers are not looked at, and nothing is dispatched.
C1_ChallengeBypass ==
    \A r \in Reqs :
        IsChallenge(r) =>
            /\ Lines(r, WorkOps \cup {"verifySlackRequest", "warn"}) = {}
            /\ pc[r] \in {"start", "parse", "challenge", "done"}
            /\ pc[r] = "done" => res[r] = ChallengeReply(CanonicalBody(r).challenge)

\* a challenge without timestamp and signature headers has been answered
C1_Witness ==
    \E r \in Reqs :
        /\ pc[r] = "done"
        /\ IsChallenge(r)
        /\ req[r].timestamp.s = "absent"
        /\ req[r].signature.len = 0
        /\ res[r] = ChallengeReply("ch2")

\* C2: with verification enabled, a non-challenge request that fails
\* authentication is answered with 401 and causes no bot-identity lookup,
\* credential lookup, message or review-list fetch, approval call, DM or
\* reaction.
C2_AuthFailureIsFatal ==
    \A r \in Reqs :
        (/\ Served(r) /\ Normalizes(r) /\ ~IsChallenge(r)
         /\ ~skipVerification
         /\ BadCredentials(r)) =>
            /\ Lines(r, WorkOps) = {}
            /\ pc[r] \in {"start", "parse", "challenge", "auth", "done"}
            /\ pc[r] = "done" => res[r] = Reply(401)

\* an event callback with a well-formed but wrong signature has been refused
C2_Witness ==
    \E r \in Reqs :
        /\ pc[r] = "done"
        /\ ~skipVerification
        /\ CanonicalBody(r).type = "event_callback"
        /\ req[r].timestamp = TsNum(Now)
        /\ req[r].signature = SigJunk(SigPrefixLen + HexDigestLen)
        /\ res[r] = Reply(401)
        /\ Lines(r, {"verifySlackRequest"}) # {}

\* the acting identity has a review in the list and its last one is an approval
ShowsApproved(reviewList, githubUsername) ==
    \E i \in 1..Len(reviewList) :
        /\ toLowerCase(reviewList[i].login) = toLowerCase(githubUsername)
        /\ reviewList[i].state = "APPROVED"
        /\ \A j \in (i + 1)..Len(reviewList) :
              toLowerCase(reviewList[j].login) # toLowerCase(githubUsername)

\* invocation r runs the idempotence check of its current pair in this step
CheckStep(r) == pc[r] \in {"mCheck", "rCheck"} /\ Len(log'[r]) > Len(log[r])

\* the lines of log[r] written at the loop position of the current pair
PairLines(r, lg, ops) ==
    {i \in 1..Len(lg) : /\ lg[i].op \in ops
                        /\ lg[i].ui = frame[r].ui
                        /\ lg[i].pj = frame[r].pj}

C6_CheckBeforeApproval ==
    \A r \in Reqs :
        \A i \in Lines(r, {"createReview"}) :
            /\ i > 1
            /\ log[r][i - 1].op = "hasAlreadyApproved"
            /\ log[r][i - 1].result \in {"false", "error"}
            /\ log[r][i - 1].id = log[r][i].id
            /\ log[r][i - 1].pr = log[r][i].pr
            /\ log[r][i - 1].ui = log[r][i].ui
            /\ log[r][i - 1].pj = log[r][i].pj

\* an approval call was issued after a check that failed
C6_Witness ==
    \E r \in Reqs :
        \E i \in Lines(r, {"createReview"}) :
            /\ i > 1
            /\ log[r][i - 1].op = "hasAlreadyApproved"
            /\ log[r][i - 1].result = "error"

\* the identity a request acts for at loop position ui
ActingIdentity(r, ui) ==
    IF frame[r].body.event.type = "reaction_added"
    THEN frame[r].body.event.user
    ELSE frame[r].mentionedUsers[ui]

\* C7: every approval call is made with the token the credential store
\* holds for the acting identity of the pair (the reacting user, or the
\* mentioned user), never another identity's token or the bot token.
C7_OwnCredential ==
    \A r \in Reqs :
        \A i \in Lines(r, {"createReview"}) :
            /\ log[r][i].id = ActingIdentity(r, log[r][i].ui)
            /\ SelectUserInfo(store, log[r][i].id).found
            /\ log[r][i].token = SelectUserInfo(store, log[r][i].id).token
            /\ log[r][i].token # BotToken

\* the second mentioned identity approved with its own token
C7_Witness ==
    \E r \in Reqs :
        \E i \in Lines(r, {"createReview"}) :
            /\ log[r][i].id = "U2"
            /\ log[r][i].token = "ghp_bob"
            /\ log[r][i].ui = 2
            /\ frame[r].body.event.type = "message"

\* the request passed authentication and is an event_callback with an event
Dispatched(r) == Lines(r, {"getBotUserId"}) # {}

\* C8 (as stated): once dispatch has begun, the handler has sent a 200 by
\* the time it returns.
C8_AlwaysAcknowledged ==
    \A r \in Reqs : (pc[r] = "done" /\ Dispatched(r)) => res[r].status = 200

\* the request is refused by the header check or by the signature check
AuthFailed(r) ==
    /\ Served(r) /\ Normalizes(r) /\ ~IsChallenge(r)
    /\ \/ req[r].timestamp.s = "absent"
       \/ req[r].signature.len = 0
       \/ ~skipVerification /\ BadCredentials(r)

\* the nested payload is not JSON, the body is the JSON null, or an
\* authenticated event_callback carries no event
Malformed(r) ==
    /\ Served(r)
    /\ \/ ~Normalizes(r)
       \/ /\ ~AuthFailed(r)
          /\ CanonicalBody(r).type = "event_callback"
          /\ ~CanonicalBody(r).event.defined

\* C9 (as stated): a request that is neither an authentication failure nor
\* a malformed body is answered with 200.
C9_Original ==
    \A r \in Reqs :
        (Terminal(r) /\ ~AuthFailed(r) /\ ~Malformed(r)) => res[r].status = 200

\* the bare returns of the reaction flow: no credential, no text, no reference
ReactionBareReturn(r) ==
    /\ pc[r] = "done"
    /\ frame[r].body.event.type = "reaction_added"
    /\ Len(log[r]) > 0
    /\ \/ log[r][Len(log[r])].op = "getMessage"
       \/ log[r][Len(log[r])].op = "sendDM" /\ log[r][Len(log[r])].result \in
             {"connect:sent", "connect:failed"}

\* C9 (amended): a non-200 status is sent only to a non-POST request (405),
\* on a deployment without signing secret or bot token (500) and for
\* authentication failures (401); a malformed body makes the handler throw
\* without a response; every other request is answered with 200, or with
\* nothing on the bare returns of the reaction flow.
C9_NonOkResponses ==
    \A r \in Reqs :
        Terminal(r) =>
            /\ res[r].status = 405 <=> req[r].method # "POST"
            /\ res[r].status = 500 <=> (req[r].method = "POST" /\ ~ConfigOk)
            /\ res[r].status = 401 <=> AuthFailed(r)
            /\ pc[r] = "threw" <=> Malformed(r)
            /\ pc[r] = "threw" => res[r].status = 0
            /\ (Served(r) /\ ~AuthFailed(r) /\ ~Malformed(r)) =>
                  \/ res[r].status = 200
                  \/ res[r].status = 0 /\ ReactionBareReturn(r)

\* a request whose approval call failed and whose failure DM failed was
\* answered with 200
C9_Witness ==
    \E r \in Reqs :
        /\ pc[r] = "done"
        /\ res[r].status = 200
        /\ \E i \in Lines(r, {"createReview"}) : log[r][i].result = "throw"
        /\ \E i \in Lines(r, {"sendDM"}) : log[r][i].result = "failed:failed"

\* the approval loops of the request ran to their end
Completed(r) ==
    /\ pc[r] = "done"
    /\ Lines(r, {"initializeDatabase"}) # {}
    /\ \A i \in Lines(r, {"initializeDatabase", "getUserInfo"}) : log[r][i].result # "throw"

\* some pair of the request ended approved or skipped
SomeApprovedOrSkipped(r) ==
    \/ Lines(r, {"skipped"}) # {}
    \/ \E i \in Lines(r, {"createReview"}) : log[r][i].result = "ok"

\* C10 (as stated): a completed request, reaction-triggered or
\* mention-triggered, with an approved or skipped pair has called
\* addReaction exactly once.
C10_Original ==
    \A r \in Reqs :
        (Completed(r) /\ SomeApprovedOrSkipped(r)) =>
            Cardinality(Lines(r, {"addReaction"})) = 1

\* C10 (amended): a completed mention-triggered request with an approved or
\* skipped pair has called addReaction on the triggering channel exactly
\* once; no request calls it twice, and a reaction-triggered request never
\* calls it.
C10_MentionCompletion ==
    \A r \in Reqs :
        /\ Cardinality(Lines(r, {"addReaction"})) <= 1
        /\ \A i \in Lines(r, {"addReaction"}) : log[r][i].id = frame[r].body.event.channel
        /\ (/\ frame[r].body.event.type = "message"
            /\ Completed(r)
            /\ SomeApprovedOrSkipped(r)) => Cardinality(Lines(r, {"addReaction"})) = 1
        /\ frame[r].body.event.type = "reaction_added" => Lines(r, {"addReaction"}) = {}

\* a mention-triggered request whose only successes are skips has added the
\* reaction once
C10_Witness ==
    \E r \in Reqs :
        /\ Completed(r)
        /\ frame[r].body.event.type = "message"
        /\ Lines(r, {"skipped"}) # {}
        /\ \A i \in Lines(r, {"createReview"}) : log[r][i].result = "throw"
        /\ Cardinality(Lines(r, {"addReaction"})) = 1

(***************************************************************************)
(* Properties of the approval loops                                        *)
(***************************************************************************)
\* C11: a request none of whose pairs ended approved or skipped (every
\* approval failed, or no identity had a credential so that no pair was
\* processed at all) never calls addReaction.
C11_NoSignalWithoutSuccess ==
    \A r \in Reqs :
        ~SomeApprovedOrSkipped(r) => Lines(r, {"addReaction"}) = {}

\* a mention-triggered request ran its loops to the end with one identity
\* whose approvals all failed and one identity without credential, and
\* returned 200 without the reaction
C11_Witness ==
    \E r \in Reqs :
        /\ Completed(r)
        /\ frame[r].body.event.type = "message"
        /\ res[r].status = 200
        /\ \E i \in Lines(r, {"createReview"}) : log[r][i].result = "throw"
        /\ \E i \in Lines(r, {"getUserInfo"}) : log[r][i].result = "null"
        /\ ~SomeApprovedOrSkipped(r)
        /\ Lines(r, {"addReaction"}) = {}

\* C12 (as stated): within one request the idempotence check and the
\* approval call run at most once for every (identity, reference) pair.
C12_PairProcessedOnce ==
    \A r \in Reqs :
        \A i, j \in Lines(r, {"hasAlreadyApproved", "createReview"}) :
            (/\ log[r][i].op = log[r][j].op
             /\ log[r][i].id = log[r][j].id
             /\ log[r][i].pr = log[r][j].pr) => i = j

\* the lines that record the outcome of a pair: skipped, approved (ok) or
\* failed (throw)
OutcomeLines(r) == Lines(r, {"skipped", "createReview"})

\* the mention flow of the request was entered with several mentions
SeveralMentions(r) ==
    /\ pc[r] = "done"
    /\ frame[r].body.event.type = "message"
    /\ Len(frame[r].mentionedUsers) >= 2
    /\ \E i \in Lines(r, {"initializeDatabase"}) : log[r][i].result = "ok"

\* C13 (as stated): for a message with several mentions and a reference,
\* the credential of every mentioned identity is looked up whatever happened
\* to the earlier identities, and every (resolved identity, reference) pair
\* ends with exactly one outcome.
C13_EveryIdentityResolved ==
    \A r \in Reqs :
        SeveralMentions(r) =>
            /\ \A k \in 1..Len(frame[r].mentionedUsers) :
                  \E i \in Lines(r, {"getUserInfo"}) :
                      log[r][i].id = frame[r].mentionedUsers[k]
            /\ \A i \in Lines(r, {"getUserInfo"}) :
                  log[r][i].result = "row" =>
                      \A j \in 1..Len(frame[r].prs) :
                          Cardinality({o \in OutcomeLines(r) :
                                          /\ log[r][o].id = log[r][i].id
                                          /\ log[r][o].pr = frame[r].prs[j]}) = 1

\* the lookup at line i of log[r] ran for an identity without a row in the
\* store, and did not throw
NoCredentialAt(r, i) ==
    /\ log[r][i].op = "getUserInfo"
    /\ log[r][i].result = "null"
    /\ ~SelectUserInfo(store, log[r][i].id).found

\* line i + 1 of log[r] is the onboarding notification, sent to recipient
OnboardingDMAfter(r, i, recipient) ==
    /\ i + 1 <= Len(log[r])
    /\ log[r][i + 1].op = "sendDM"
    /\ log[r][i + 1].result \in {"connect:sent", "connect:failed"}
    /\ log[r][i + 1].id = recipient

\* no idempotence check and no approval call ran for the identity
NothingOnBehalfOf(r, id) ==
    \A k \in Lines(r, {"hasAlreadyApproved", "skipped", "createReview"}) : log[r][k].id # id

\* after loop position ui of the mention flow the next identity was looked up
ContinuedAfter(r, ui) ==
    ui < Len(frame[r].mentionedUsers) =>
        \E k \in Lines(r, {"getUserInfo"}) : log[r][k].ui = ui + 1

\* C14 (as stated): an identity without stored credential is itself sent the
\* onboarding notification, nothing is attempted on its behalf, and the
\* request goes on with the next identity.
C14_Original ==
    \A r \in Reqs :
        \A i \in 1..Len(log[r]) :
            (Terminal(r) /\ NoCredentialAt(r, i)) =>
                /\ OnboardingDMAfter(r, i, log[r][i].id)
                /\ NothingOnBehalfOf(r, log[r][i].id)
                /\ ContinuedAfter(r, log[r][i].ui)

\* C14 (amended): the onboarding notification goes to the actor of the event
\* (the reacting user, who is the identity, or the sender of the message
\* that mentions the identity); nothing is attempted on the identity's
\* behalf; the mention flow goes on with the next identity and answers 200,
\* the reaction flow returns without a response.
C14_OnboardingNotice ==
    \A r \in Reqs :
        \A i \in 1..Len(log[r]) :
            (Terminal(r) /\ NoCredentialAt(r, i)) =>
                /\ OnboardingDMAfter(r, i, frame[r].body.event.user)
                /\ NothingOnBehalfOf(r, log[r][i].id)
                /\ IF frame[r].body.event.type = "message"
                   THEN /\ ContinuedAfter(r, log[r][i].ui)
                        /\ res[r].status = 200
                   ELSE /\ log[r][i].id = frame[r].body.event.user
                        /\ i + 1 = Len(log[r])
                        /\ res[r].status = 0

\* the first mentioned identity had no credential, the sender was sent the
\* notice, and the second identity was approved for
C14_Witness ==
    \E r \in Reqs :
        /\ pc[r] = "done"
        /\ \E i \in 1..Len(log[r]) :
              /\ NoCredentialAt(r, i)
              /\ log[r][i].ui = 1
              /\ OnboardingDMAfter(r, i, frame[r].body.event.user)
              /\ log[r][i].id # frame[r].body.event.user
        /\ \E k \in Lines(r, {"createReview"}) : log[r][k].ui = 2 /\ log[r][k].result = "ok"

\* C15 (as stated): a failed approval call is followed by a failure
\* notification for that reference to the actor of the event (the reacting
\* user or the message sender), and the remaining references of the
\* identity are processed.
C15_FailureNotified ==
    \A r \in Reqs :
        \A i \in Lines(r, {"createReview"}) :
            (Terminal(r) /\ log[r][i].result = "throw") =>
                /\ i + 1 <= Len(log[r])
                /\ log[r][i + 1].op = "sendDM"
                /\ log[r][i + 1].result \in {"failed:sent", "failed:failed"}
                /\ log[r][i + 1].id = frame[r].body.event.user
                /\ log[r][i + 1].pr = log[r][i].pr
                /\ log[r][i].pj < Len(frame[r].prs) =>
                      \E k \in Lines(r, {"hasAlreadyApproved"}) :
                          /\ log[r][k].ui = log[r][i].ui
                          /\ log[r][k].pj = log[r][i].pj + 1

(***************************************************************************)
(* Properties of the extractors                                            *)
(***************************************************************************)
\* the triple a url candidate stands for: that of the GitHub pattern when it
\* matches, else that of the Graphite pattern
TripleOf(url) ==
    IF GithubMatch(url).matched
    THEN PRInfo(GithubMatch(url).owner, GithubMatch(url).repo, GithubMatch(url).prNumber)
    ELSE PRInfo(GraphiteMatch(url).owner, GraphiteMatch(url).repo, GraphiteMatch(url).prNumber)

Matches(url) == GithubMatch(url).matched \/ GraphiteMatch(url).matched

FlowOps == WorkOps \ {"getBotUserId"}

\* the canonical body of the request
EventOf(r) == CanonicalBody(r).event

\* a reaction event got as far as the filters
ReactionRouted(r) ==
    /\ Dispatched(r)
    /\ EventOf(r).type = "reaction_added"

\* the channel is one of the entries of the allow-list
InAllowList(channel) == \E i \in 1..Len(allowedChannels) : allowedChannels[i] = channel

\* C17 (as stated): a reaction event leads to flow work only if its reaction
\* is the trigger emoji and its channel is an entry of the allow-list; one
\* failing either condition is answered with 200 and nothing else is done.
C17_Original ==
    \A r \in Reqs :
        ReactionRouted(r) =>
            LET passes == /\ EventOf(r).reaction = triggerEmoji
                          /\ InAllowList(EventOf(r).channel)
            IN  /\ Lines(r, FlowOps) # {} => passes
                /\ (pc[r] = "done" /\ ~passes) => res[r].status = 200

\* C17 (amended): the channel condition is that the allow-list is empty or
\* has the channel as an entry.
C17_ReactionFilter ==
    \A r \in Reqs :
        ReactionRouted(r) =>
            LET passes == /\ EventOf(r).reaction = triggerEmoji
                          /\ Len(allowedChannels) = 0 \/ InAllowList(EventOf(r).channel)
            IN  /\ Lines(r, FlowOps) # {} => passes
                /\ (pc[r] = "done" /\ ~passes) =>
                      /\ res[r] = Reply(200)
                      /\ Lines(r, FlowOps) = {}
                      /\ reviews \in ReviewLists

\* with the allow-list C1, a reaction in C1 by a user with a credential that
\* is not the trigger emoji was answered with 200 without any work
C17_Witness ==
    \E r \in Reqs :
        /\ pc[r] = "done"
        /\ ReactionRouted(r)
        /\ allowedChannels = <<"C1">>
        /\ frame[r].botUserId = BotId
        /\ SelectUserInfo(store, EventOf(r).user).found
        /\ EventOf(r).user # BotId
        /\ EventOf(r).reaction = "eyes"
        /\ EventOf(r).channel = "C1"
        /\ res[r] = Reply(200)
        /\ Lines(r, FlowOps) = {}

\* SLACK_ALLOWED_CHANNELS is unset, or set to the empty string
LeftEmpty ==
    \/ ~env.SLACK_ALLOWED_CHANNELS.set
    \/ env.SLACK_ALLOWED_CHANNELS.parts = <<"">>

\* an event of another actor than the bot that the other filters let through:
\* a trigger reaction, or a plain message with a mention and a reference
Qualifying(r) ==
    /\ Dispatched(r)
    /\ pc[r] = "done"
    /\ EventOf(r).user # frame[r].botUserId
    /\ \/ EventOf(r).type = "reaction_added" /\ EventOf(r).reaction = triggerEmoji
       \/ /\ EventOf(r).type = "message"
          /\ EventOf(r).subtype = "undefined"
          /\ Len(extractUserMentions(EventOf(r).text)) > 0
          /\ Len(extractPRs(EventOf(r).text)) > 0

\* C18 (as stated): with SLACK_ALLOWED_CHANNELS unset or set to the empty
\* string the allow-list is empty, and the flow is started for the
\* qualifying events of every channel.
C18_EmptyAllowsAll ==
    \A r \in Reqs :
        (LeftEmpty /\ Qualifying(r)) =>
            /\ Len(allowedChannels) = 0
            /\ Lines(r, {"initializeDatabase"}) # {}

\* the text holds mention markup with an identity token
HasMention(text) ==
    \E i \in 1..Len(text) : text[i].t = "mention" /\ text[i].id \in MentionIds

\* the text holds a url, bare or chat-wrapped, that one of the patterns matches
HasReference(text) ==
    \E i \in 1..Len(text) : text[i].t \in {"wrapped", "bare"} /\ Matches(text[i].url)

\* a message event got as far as the filters
MessageRouted(r) ==
    /\ Dispatched(r)
    /\ EventOf(r).type = "message"

\* C19: a message event leads to flow work only if its text has a mention
\* and a pull-request reference; any other message event is answered with
\* 200 without credential lookup, approval call, DM or reaction.
C19_MessageNeedsBoth ==
    \A r \in Reqs :
        MessageRouted(r) =>
            LET both == HasMention(EventOf(r).text) /\ HasReference(EventOf(r).text)
            IN  /\ Lines(r, FlowOps) # {} => both
                /\ (pc[r] = "done" /\ ~both) =>
                      /\ res[r] = Reply(200)
                      /\ Lines(r, FlowOps) = {}
                      /\ reviews \in ReviewLists

\* a message of another user than the bot, in an allowed channel, with
\* pull-request links and no mention was answered with 200 without any work
C19_Witness ==
    \E r \in Reqs :
        /\ pc[r] = "done"
        /\ MessageRouted(r)
        /\ EventOf(r).subtype = "undefined"
        /\ EventOf(r).user # frame[r].botUserId
        /\ ~ChannelBlocked(EventOf(r).channel)
        /\ ~HasMention(EventOf(r).text)
        /\ HasReference(EventOf(r).text)
        /\ res[r] = Reply(200)
        /\ Lines(r, FlowOps) = {}

\* C20 (as stated): an event whose actor is the bot itself causes no
\* credential lookup, approval call, DM or reaction, and is answered with 200.
C20_SelfEventsIgnored ==
    \A r \in Reqs :
        (/\ Dispatched(r)
         /\ EventOf(r).type \in {"message", "reaction_added"}
         /\ EventOf(r).user = BotId) =>
            /\ Lines(r, FlowOps) = {}
            /\ pc[r] = "done" => res[r] = Reply(200)

(***************************************************************************)
(* Properties of the error handling                                        *)
(***************************************************************************)
\* C21: when reactions.add answers already_reacted, addReaction returns
\* true; the call is the last thing the request does, the request is
\* answered with 200, and the outcomes of its pairs are those recorded
\* before the call.
C21_AlreadyReactedIsSuccess ==
    \A r \in Reqs :
        \A i \in Lines(r, {"reactions.add"}) :
            log[r][i].result = "already_reacted" =>
                /\ Len(log[r]) = i + 1
                /\ log[r][i + 1].op = "addReaction"
                /\ log[r][i + 1].result = "true"
                /\ pc[r] = "done"
                /\ res[r] = Reply(200)
                /\ \A o \in OutcomeLines(r) : o < i

\* a mention-triggered request with an approved pair got already_reacted
\* and returned 200
C21_Witness ==
    \E r \in Reqs :
        /\ pc[r] = "done"
        /\ res[r] = Reply(200)
        /\ \E i \in Lines(r, {"reactions.add"}) : log[r][i].result = "already_reacted"
        /\ \E i \in Lines(r, {"addReaction"}) : log[r][i].result = "true"
        /\ \E i \in Lines(r, {"createReview"}) : log[r][i].result = "ok"

\* the loop position (ui, pj) of the request was reached: its idempotence
\* check ran
PairReached(r, ui, pj) ==
    \E i \in Lines(r, {"hasAlreadyApproved"}) : log[r][i].ui = ui /\ log[r][i].pj = pj

\* C22 (as stated): whatever calls failed on the way, a request that entered
\* a flow looked up every mentioned identity and ran every reference of
\* every identity that has a credential.
C22_FailuresDoNotAbort ==
    \A r \in Reqs :
        (/\ pc[r] = "done"
         /\ \E i \in Lines(r, {"initializeDatabase"}) : log[r][i].result = "ok") =>
            /\ \A k \in 1..Len(frame[r].mentionedUsers) :
                  \E i \in Lines(r, {"getUserInfo"}) :
                      /\ log[r][i].ui = k
                      /\ log[r][i].result = "row" =>
                            \A j \in 1..Len(frame[r].prs) : PairReached(r, k, j)
            /\ frame[r].body.event.type = "reaction_added" =>
                  \A j \in 1..Len(frame[r].prs) : PairReached(r, 0, j)

(***************************************************************************)
(* Properties of a double delivery                                         *)
(***************************************************************************)
\* delivery o has had its approval of the pair recorded remotely
RecordedBy(o, id, pr) ==
    \E i \in Lines(o, {"createReview"}) :
        /\ log[o][i].result = "ok"
        /\ log[o][i].id = id
        /\ log[o][i].pr = pr

\* delivery r runs the idempotence check of a pair in this step, after the
\* approval of that pair by the other delivery of the same webhook was recorded
CheckAfterRecorded(r) ==
    /\ CheckStep(r)
    /\ \E o \in Reqs \ {r} :
          /\ req[o] = req[r]
          /\ RecordedBy(o, ActingIdentity(r, frame[r].ui), frame[r].prs[frame[r].pj])

\* the step skips the current pair of r: no approval call, a skipped record
SkipsPair(r) ==
    /\ pc'[r] \notin {"mApprove", "rApprove"}
    /\ reviews' = reviews
    /\ PairLines(r, log'[r], {"createReview"}) = {}
    /\ PairLines(r, log'[r], {"skipped"}) # {}

\* C23 (as stated): a check that runs after the other delivery's approval of
\* the pair was recorded is followed by no approval call, and the pair is
\* recorded as skipped.
C23_Original ==
    [][\A r \in Reqs : CheckAfterRecorded(r) => SkipsPair(r)]_vars

\* C23 (amended): the same, for a check whose review-list query succeeded.
C23_SecondDeliverySkips ==
    [][\A r \in Reqs :
          (CheckAfterRecorded(r) /\ log'[r][Len(log[r]) + 1].result # "error") =>
              SkipsPair(r)]_vars

\* both deliveries are done: the first found the pair not approved and
\* approved it, the second found it approved and skipped it
C23_Witness ==
    \E r, o \in Reqs :
        /\ r # o
        /\ req[r] = req[o]
        /\ pc[r] = "done" /\ pc[o] = "done"
        /\ \E i \in Lines(o, {"createReview"}), k \in Lines(r, {"skipped"}) :
              /\ log[o][i].result = "ok"
              /\ log[o][i - 1].result = "false"
              /\ log[r][k].id = log[o][i].id
              /\ log[r][k].pr = log[o][i].pr
              /\ \A c \in Lines(r, {"createReview"}) : log[r][c].pr # log[o][i].pr

\* invocation r has run the check of its current pair and not yet the approval
AtApprove(r) == pc[r] \in {"mApprove", "rApprove"}

\* the (identity, reference) pair invocation r is working on
CurrentPair(r) == <<ActingIdentity(r, frame[r].ui), frame[r].prs[frame[r].pj]>>

\* C24: nothing at request level prevents the duplicate approval. While one
\* delivery has checked a pair and not yet approved it, the other delivery's
\* check of the same pair, finding no approval recorded, proceeds to the
\* approval as well; and with both deliveries between check and approval of
\* the same pair, the next step of either is the approval call, whose
\* success is recorded remotely.
C24_NothingPreventsDuplicate ==
    [][\A r \in Reqs : \A o \in Reqs \ {r} :
          req[r] = req[o] =>
              /\ ( /\ CheckStep(r)
                   /\ AtApprove(o)
                   /\ CurrentPair(o) = CurrentPair(r)
                   /\ ~ShowsApproved(reviews[frame[r].prs[frame[r].pj]],
                                     frame[r].userInfo.username) )
                     => pc'[r] \in {"mApprove", "rApprove"}
              /\ ( /\ AtApprove(r)
                   /\ AtApprove(o)
                   /\ CurrentPair(o) = CurrentPair(r)
                   /\ log'[r] # log[r] )
                     => LET pr == frame[r].prs[frame[r].pj]
                            line == log'[r][Len(log'[r])]
                        IN  /\ Len(log'[r]) = Len(log[r]) + 1
                            /\ line.op = "createReview"
                            /\ line.id = ActingIdentity(r, frame[r].ui)
                            /\ line.pr = pr
                            /\ line.result = "ok" =>
                                  /\ Len(reviews'[pr]) = Len(reviews[pr]) + 1
                                  /\ reviews'[pr][Len(reviews'[pr])].state = "APPROVED"]_vars

\* both deliveries are done; each found the pair not approved and each
\* approved it: the reference carries the same user's approval twice
C24_Witness ==
    /\ req[1] = req[2]
    /\ pc[1] = "done" /\ pc[2] = "done"
    /\ \E i \in Lines(1, {"createReview"}), k \in Lines(2, {"createReview"}) :
          /\ log[1][i].result = "ok" /\ log[2][k].result = "ok"
          /\ log[1][i].id = log[2][k].id
          /\ log[1][i].pr = log[2][k].pr
          /\ log[1][i - 1].op = "hasAlreadyApproved" /\ log[1][i - 1].result = "false"
          /\ log[2][k - 1].op = "hasAlreadyApproved" /\ log[2][k - 1].result = "false"
          /\ LET rl == reviews[log[1][i].pr]
             IN  /\ Len(rl) >= 2
                 /\ rl[Len(rl)] = rl[Len(rl) - 1]
                 /\ rl[Len(rl)].state = "APPROVED"

(***************************************************************************)
(* Properties of the idempotence checker                                   *)
(***************************************************************************)
\* C25: when the review-list query fails, hasAlreadyApproved answers 'not
\* approved' and nothing is propagated: the handler goes on to the approval
\* call of the same pair, with the same credential, and writes no skip.
C25_QueryFailureProceeds ==
    \A r \in Reqs :
        \A i \in Lines(r, {"hasAlreadyApproved"}) :
            log[r][i].result = "error" =>
                IF Len(log[r]) = i
                THEN pc[r] \in {"mApprove", "rApprove"}
                ELSE /\ log[r][i + 1].op = "createReview"
                     /\ log[r][i + 1].id = log[r][i].id
                     /\ log[r][i + 1].pr = log[r][i].pr
                     /\ log[r][i + 1].token = log[r][i].token
                     /\ log[r][i + 1].ui = log[r][i].ui
                     /\ log[r][i + 1].pj = log[r][i].pj

\* a mention-flow request is done whose check of a pair failed and whose
\* approval of that pair was then issued and accepted
C25_Witness ==
    \E r \in Reqs :
        /\ pc[r] = "done"
        /\ frame[r].body.event.type = "message"
        /\ \E i \in Lines(r, {"hasAlreadyApproved"}) :
              /\ log[r][i].result = "error"
              /\ log[r][i + 1].op = "createReview"
              /\ log[r][i + 1].result = "ok"

\* the indices of the entries of a review list whose author is the user
AuthorEntries(reviewList, githubUsername) ==
    {i \in 1..Len(reviewList) :
        toLowerCase(reviewList[i].login) = toLowerCase(githubUsername)}

\* the review list with entry i taken out
Without(reviewList, i) ==
    [k \in 1..(Len(reviewList) - 1) |-> IF k < i THEN reviewList[k] ELSE reviewList[k + 1]]

\* the greatest element of a non-empty set of indices
Greatest(S) == CHOOSE i \in S : \A k \in S : k <= i

\* C26: on a fetched review list hasAlreadyApproved returns true if and only
\* if the list has an entry by the acting user, compared case-insensitively,
\* and the last such entry has state APPROVED; taking out any other entry,
\* an earlier one by the user or one by another author, leaves the result
\* as it is.
C26_LatestOwnReviewDecides ==
    (cin.active /\ cin.listOk /\ cout # "none") =>
        LET own == AuthorEntries(cin.reviewList, cin.githubUsername)
        IN  /\ cout = "true" <=>
                  /\ own # {}
                  /\ cin.reviewList[Greatest(own)].state = "APPROVED"
            /\ \A i \in 1..Len(cin.reviewList) :
                  (own = {} \/ i # Greatest(own)) =>
                      hasAlreadyApproved(TRUE, Without(cin.reviewList, i), cin.githubUsername)
                          = (cout = "true")

\* the call answered false on a list in which the user, under another letter
\* case, approved first and requested changes later, and whose last entry is
\* another author's approval
C26_Witness ==
    /\ cin.active /\ cin.listOk
    /\ cin.githubUsername = "Alice"
    /\ cin.reviewList = <<Review("ALICE", "APPROVED"), Review("alice", "CHANGES_REQUESTED"),
                          Review("bob", "APPROVED")>>
    /\ cout = "false"

(***************************************************************************)
(* Properties of the order of parse and authentication                     *)
(***************************************************************************)
\* the authentication decision of invocation r is in its log
AuthDecided(r) == Lines(r, {"verifySlackRequest", "warn"}) # {}

\* this step takes invocation r into the dispatch on the body's type
EntersDispatch(r) == pc'[r] = "dispatch" /\ pc[r] # "dispatch"

\* C27 (as stated): the body is normalized only after the authentication
\* decision, and a request enters dispatch only with valid credentials.
C27_Original ==
    [][\A r \in Reqs :
          /\ (pc[r] = "parse" /\ pc'[r] # "parse") => AuthDecided(r)
          /\ EntersDispatch(r) => ~BadCredentials(r)]_vars

\* C27 (amended): the order is received, normalized, authenticated,
\* dispatched. The authentication decision is taken on a request whose
\* body has been normalized, and once; a request enters dispatch only from
\* that decision, with both headers present and either valid credentials
\* or the verification switched off.
C27_ParsedThenAuthenticated ==
    [][\A r \in Reqs :
          /\ (pc[r] = "auth" /\ pc'[r] # "auth") =>
                /\ \E i \in Lines(r, {"parseBody"}) : log[r][i].result = "ok"
                /\ ~AuthDecided(r)
          /\ EntersDispatch(r) =>
                /\ pc[r] = "auth"
                /\ req[r].timestamp.s # "absent"
                /\ req[r].signature.len # 0
                /\ skipVerification \/ ~BadCredentials(r)
                /\ log'[r][Len(log'[r])].op \in {"verifySlackRequest", "warn"}]_vars

\* an event callback stands at dispatch: its body was parsed first and its
\* signature verified after that
C27_Witness ==
    \E r \in Reqs :
        /\ pc[r] = "dispatch"
        /\ ~skipVerification
        /\ CanonicalBody(r).type = "event_callback"
        /\ Len(log[r]) = 2
        /\ log[r][1].op = "parseBody" /\ log[r][1].result = "ok"
        /\ log[r][2].op = "verifySlackRequest" /\ log[r][2].result = "true"

(***************************************************************************)
(* Properties of the body normalizer                                       *)
(***************************************************************************)
\* the positions of the form fields named payload
PayloadFields(form) == {i \in 1..Len(form) : form[i].key = "payload"}

\* the value of the first form field named payload
PayloadValue(form) == form[CHOOSE i \in PayloadFields(form) :
                               \A k \in PayloadFields(form) : i <= k].val

\* C28 (as stated): once the parse is over, the canonical body is the JSON
\* parse of the raw body when the raw body parses as JSON; otherwise, when
\* the form has a field named payload, it is the JSON parse of that field's
\* value (and the handler throws when that value is not JSON); otherwise it
\* is the mapping of the flat form fields.
C28_Original ==
    \A r \in Reqs :
        (Served(r) /\ pc[r] \notin {"start", "parse"}) =>
            LET raw == req[r].rawBody
            IN  IF raw.json.jk # "SyntaxError"
                THEN frame[r].body = raw.json
                ELSE IF PayloadFields(raw.form) # {}
                THEN IF PayloadValue(raw.form).json.jk = "SyntaxError"
                     THEN pc[r] = "threw" /\ Lines(r, {"parseBody"}) = {Len(log[r])}
                     ELSE frame[r].body = PayloadValue(raw.form).json
                ELSE frame[r].body = JBody(FlatField(raw.form, "type"),
                                           FlatField(raw.form, "challenge"), NoEvent)

\* C28 (amended): the same, with the nested parse taken only when the first
\* field named payload has a non-empty value; a form whose payload field is
\* empty is mapped like a form without one.
C28_CanonicalBody ==
    \A r \in Reqs :
        (Served(r) /\ pc[r] \notin {"start", "parse"}) =>
            LET raw == req[r].rawBody
            IN  IF raw.json.jk # "SyntaxError"
                THEN frame[r].body = raw.json
                ELSE IF PayloadFields(raw.form) # {} /\ PayloadValue(raw.form).s # ""
                THEN IF PayloadValue(raw.form).json.jk = "SyntaxError"
                     THEN pc[r] = "threw" /\ Lines(r, {"parseBody"}) = {Len(log[r])}
                     ELSE frame[r].body = PayloadValue(raw.form).json
                ELSE frame[r].body = JBody(FlatField(raw.form, "type"),
                                           FlatField(raw.form, "challenge"), NoEvent)

\* a form body with a nested payload has been parsed: the canonical body is
\* the event callback the payload holds
C28_Witness ==
    \E r \in Reqs :
        /\ pc[r] = "auth"
        /\ req[r].rawBody.json.jk = "SyntaxError"
        /\ PayloadFields(req[r].rawBody.form) # {}
        /\ frame[r].body = PayloadValue(req[r].rawBody.form).json
        /\ frame[r].body.type = "event_callback"
        /\ frame[r].body.event.type = "reaction_added"
(***************************************************************************)
(* Properties of the signature comparison and of the escape hatch          *)
(***************************************************************************)
\* C29: a call in which the constant-time comparison throws, as it does when
\* the supplied signature and the computed one differ in length, returns
\* false: the exception is not propagated.
C29_ComparisonErrorIsInvalid ==
    (/\ vin.active
     /\ vout # "none"
     /\ vin.signature.len #
            ComputeSignature(vin.body, vin.timestamp, vin.signingSecret).len) =>
        vout = "false"

\* a call with a fresh timestamp and a signature shorter than the computed
\* one has returned false
C29_Witness ==
    /\ vin.active
    /\ Fresh(vin.timestamp)
    /\ vin.signature.len = SigPrefixLen
    /\ vin.signature.len <
           ComputeSignature(vin.body, vin.timestamp, vin.signingSecret).len
    /\ vout = "false"

\* C30: the verification is bypassed only when SKIP_SLACK_VERIFICATION is
\* the string 'true'. With the variable unset or set to another value a
\* request enters dispatch only after verifySlackRequest answered true on
\* valid credentials, and no bypass warning is written; with 'true' the
\* request that enters dispatch has the warning as its last log line.
C30_BypassOnlyWhenTrue ==
    [][\A r \in Reqs :
          /\ EntersDispatch(r) =>
                LET last == log'[r][Len(log'[r])]
                IN  IF env.SKIP_SLACK_VERIFICATION = "true"
                    THEN last.op = "warn"
                    ELSE /\ ~BadCredentials(r)
                         /\ last.op = "verifySlackRequest"
                         /\ last.result = "true"
          /\ env.SKIP_SLACK_VERIFICATION # "true" =>
                {i \in 1..Len(log'[r]) : log'[r][i].op = "warn"} = {}]_vars

\* with the variable set to 'true' a request whose signature is not valid
\* stands at dispatch, the warning in its log and no verification line
C30_Witness ==
    \E r \in Reqs :
        /\ pc[r] = "dispatch"
        /\ env.SKIP_SLACK_VERIFICATION = "true"
        /\ req[r].signature = SigJunk(SigPrefixLen + HexDigestLen)
        /\ BadCredentials(r)
        /\ Lines(r, {"warn"}) = {Len(log[r])}
        /\ Lines(r, {"verifySlackRequest"}) = {}

(***************************************************************************)
(* Properties of the iteration                                             *)
(***************************************************************************)
\* position (ui1, pj1) of the nested loops comes before position (ui2, pj2)
LoopBefore(ui1, pj1, ui2, pj2) == ui1 < ui2 \/ (ui1 = ui2 /\ pj1 < pj2)

\* C31: within a request the pairs are processed one after the other, the
\* identities in mention order and under each identity the references in
\* extraction order: every check is that of the pair at its loop position,
\* the checks stand in the log in loop order, and between two checks stands
\* the outcome (skip or approval call) of the earlier one.
C31_SequentialInOrder ==
    \A r \in Reqs :
        /\ (pc[r] \in {"mInit", "mUser", "mCheck", "mApprove", "mFailDM", "mNoAcctDM", "mFinish"})
              => frame[r].mentionedUsers = extractUserMentions(EventOf(r).text)
                 /\ frame[r].prs = extractPRs(EventOf(r).text)
        /\ \A i \in Lines(r, {"hasAlreadyApproved"}) :
              /\ log[r][i].ui \in 0..Len(frame[r].mentionedUsers)
              /\ log[r][i].pj \in 1..Len(frame[r].prs)
              /\ log[r][i].id = ActingIdentity(r, log[r][i].ui)
              /\ log[r][i].pr = frame[r].prs[log[r][i].pj]
              /\ \A k \in Lines(r, {"hasAlreadyApproved"}) :
                    k < i =>
                        /\ LoopBefore(log[r][k].ui, log[r][k].pj, log[r][i].ui, log[r][i].pj)
                        /\ \E o \in OutcomeLines(r) :
                              /\ k < o /\ o < i
                              /\ log[r][o].id = log[r][k].id
                              /\ log[r][o].pr = log[r][k].pr

\* a message with two mentions and two references is done: four checks
\* were run, those of the first identity before those of the second
C31_Witness ==
    \E r \in Reqs :
        /\ pc[r] = "done"
        /\ Len(frame[r].mentionedUsers) = 2
        /\ Len(frame[r].prs) = 2
        /\ Cardinality(Lines(r, {"hasAlreadyApproved"})) = 4
        /\ Cardinality(Lines(r, {"createReview"})) >= 1

(***************************************************************************)
(* Properties of the order of the extractors' results                      *)
(***************************************************************************)
\* the positions of the text at which a url stands, bare or chat-wrapped,
\* that refers to pr
Occurrences(text, pr) ==
    {k \in 1..Len(text) : /\ text[k].t \in {"wrapped", "bare"}
                          /\ Matches(text[k].url)
                          /\ TripleOf(text[k].url) = pr}

\* the least element of a non-empty set of positions
Least(S) == CHOOSE i \in S : \A k \in S : i <= k

\* C32 (as stated): the result of extractPRs is in first-seen order: of two
\* entries the one whose first occurrence in the text comes first stands
\* first, bare or chat-wrapped alike.
C32_FirstSeenOrder ==
    eout.called =>
        \A i, j \in 1..Len(eout.prs) :
            i < j => Least(Occurrences(ein, eout.prs[i])) < Least(Occurrences(ein, eout.prs[j]))


\* the positions of the text at which mention markup of the identity stands
MentionsOf(text, id) ==
    {k \in 1..Len(text) : /\ text[k].t = "mention"
                          /\ text[k].id \in MentionIds
                          /\ text[k].id = id}

\* C33 (as stated): the result of extractUserMentions holds the identity
\* tokens of the text's mention markup, each once, in the order of their
\* first appearance.
C33_DistinctMentionsInOrder ==
    eout.called =>
        LET m == eout.mentions
        IN  /\ \A i, j \in 1..Len(m) : m[i] = m[j] => i = j
            /\ \A i \in 1..Len(m) : MentionsOf(ein, m[i]) # {}
            /\ \A id \in MentionIds :
                  MentionsOf(ein, id) # {} => \E i \in 1..Len(m) : m[i] = id
            /\ \A i, j \in 1..Len(m) :
                  i < j => Least(MentionsOf(ein, m[i])) <= Least(MentionsOf(ein, m[j]))

(***************************************************************************)
(* Properties of the notifications                                         *)
(***************************************************************************)
\* invocation r runs sendDM in this step
DMStep(r) ==
    /\ pc[r] \in {"mNoAcctDM", "mFailDM", "rNoAcctDM", "rErrDM"}
    /\ log'[r] # log[r]

\* where invocation r stands after the notification, whatever became of it:
\* the mention flow goes on with the next reference or the next identity,
\* the reaction flow returns
AfterNotification(r) ==
    LET f == frame[r]
        nextUser == IF f.ui < Len(f.mentionedUsers)
                    THEN <<"mUser", f.ui + 1, 0>> ELSE <<"mFinish", f.ui, f.pj>>
    IN  CASE pc[r] = "mNoAcctDM" -> nextUser
          [] pc[r] = "mFailDM" -> IF f.pj < Len(f.prs)
                                  THEN <<"mCheck", f.ui, f.pj + 1>> ELSE nextUser
          [] OTHER -> <<"done", f.ui, f.pj>>

\* C34: sendDM never throws and its failure is only logged. The step that
\* runs it writes one sendDM line and nothing else; where the request goes
\* on, the completion-signal flag, the recorded outcomes, the review lists
\* and the response are fixed by the state before the call and are the same
\* for a DM that was sent and for one that failed.
C34_NotificationBestEffort ==
    [][\A r \in Reqs :
          DMStep(r) =>
              /\ Len(log'[r]) = Len(log[r]) + 1
              /\ log'[r][Len(log'[r])].op = "sendDM"
              /\ <<pc'[r], frame'[r].ui, frame'[r].pj>> = AfterNotification(r)
              /\ frame'[r].anySuccess = frame[r].anySuccess
              /\ frame'[r].approvalResults = frame[r].approvalResults
              /\ frame'[r].mentionedUsers = frame[r].mentionedUsers
              /\ frame'[r].prs = frame[r].prs
              /\ reviews' = reviews
              /\ res'[r] = IF pc[r] = "rErrDM" THEN Reply(200) ELSE res[r]]_vars

\* a mention-flow request is done with 200 and the completion reaction: the
\* failure notice of one pair could not be sent, and a later pair was
\* checked and approved all the same
C34_Witness ==
    \E r \in Reqs :
        /\ pc[r] = "done"
        /\ res[r] = Reply(200)
        /\ \E i \in Lines(r, {"sendDM"}), k \in Lines(r, {"createReview"}) :
              /\ log[r][i].result = "failed:failed"
              /\ i < k
              /\ log[r][k].result = "ok"
        /\ \E a \in Lines(r, {"addReaction"}) : log[r][a].result = "true"

(***************************************************************************)
(* Properties of the credential store                                      *)
(***************************************************************************)
\* C35: no step of the events handler changes the credential store, and a
\* request holds no credential but a row its own lookup returned: its
\* locals hold none before a lookup of its own found one, and what they
\* hold then is the store's row of an identity it looked up.
C35_StoreOnlyRead ==
    [][/\ store' = store
       /\ \A r \in Reqs :
             frame'[r].userInfo # NoRow =>
                 \E i \in 1..Len(log'[r]) :
                     /\ log'[r][i].op = "getUserInfo"
                     /\ log'[r][i].result = "row"
                     /\ frame'[r].userInfo = SelectUserInfo(store, log'[r][i].id)]_vars

\* a request is done that looked up a credential and approved with it, and
\* the store still holds that credential
C35_Witness ==
    \E r \in Reqs :
        /\ pc[r] = "done"
        /\ \E i \in Lines(r, {"createReview"}) :
              /\ SelectUserInfo(store, log[r][i].id).found
              /\ SelectUserInfo(store, log[r][i].id).token = log[r][i].token
        /\ \E i \in Lines(r, {"createReview"}) : log[r][i].result = "throw"

(***************************************************************************)
(* Properties of the escape hatch and of the filters, continued            *)
(***************************************************************************)
\* C36: with SKIP_SLACK_VERIFICATION = 'true', a non-challenge request that
\* lacks the timestamp header or the signature header is answered with 401
\* and is not dispatched: no warning is written for it and no work is done.
C36_BypassNeedsHeaders ==
    \A r \in Reqs :
        (/\ Served(r) /\ Normalizes(r) /\ ~IsChallenge(r)
         /\ env.SKIP_SLACK_VERIFICATION = "true"
         /\ (req[r].timestamp.s = "absent" \/ req[r].signature.len = 0)) =>
            /\ Lines(r, WorkOps \cup {"warn", "verifySlackRequest"}) = {}
            /\ pc[r] \in {"start", "parse", "challenge", "auth", "done"}
            /\ pc[r] = "done" => res[r] = Reply(401)

\* with the escape hatch on, an event callback that carries a signature and
\* no timestamp header has been refused
C36_Witness ==
    \E r \in Reqs :
        /\ pc[r] = "done"
        /\ env.SKIP_SLACK_VERIFICATION = "true"
        /\ CanonicalBody(r).type = "event_callback"
        /\ req[r].timestamp.s = "absent"
        /\ req[r].signature.len # 0
        /\ res[r] = Reply(401)


\* the bot-identity lookup of invocation r failed
BotLookupFailed(r) ==
    \E i \in Lines(r, {"getBotUserId"}) : log[r][i].result = "null"

\* the event passes the filters other than the self-event filter
PassesOtherFilters(r) ==
    /\ Len(allowedChannels) = 0 \/ InAllowList(EventOf(r).channel)
    /\ \/ EventOf(r).type = "reaction_added" /\ EventOf(r).reaction = triggerEmoji
       \/ /\ EventOf(r).type = "message"
          /\ EventOf(r).subtype = "undefined"
          /\ HasMention(EventOf(r).text)
          /\ HasReference(EventOf(r).text)

FailedLookupAt(r, i) ==
    /\ log[r][i].op = "getUserInfo"
    /\ SelectUserInfo(store, log[r][i].id).found
    /\ log[r][i].result # "row"

\* C38 (as stated): a credential lookup that fails with an error returns
\* absent, and the identity is handled like one that never connected: the
\* onboarding notification follows and no idempotence check or approval call
\* is made at that position of the loop.
C38_FailedLookupIsAbsent ==
    \A r \in Reqs :
        \A i \in 1..Len(log[r]) :
            (Terminal(r) /\ FailedLookupAt(r, i)) =>
                /\ log[r][i].result = "null"
                /\ OnboardingDMAfter(r, i, frame[r].body.event.user)
                /\ \A k \in Lines(r, {"hasAlreadyApproved", "skipped", "createReview"}) :
                      log[r][k].ui # log[r][i].ui


\* C39: the allow-list gates message events as well: a message event from a
\* channel that is no entry of a non-empty allow-list causes no credential
\* lookup, review-list fetch, approval call, DM or reaction, the result of
\* no extraction is kept, and the event is answered with 200.
C39_AllowListGatesMessages ==
    \A r \in Reqs :
        (/\ MessageRouted(r)
         /\ Len(allowedChannels) > 0
         /\ ~InAllowList(EventOf(r).channel)) =>
            /\ Lines(r, FlowOps) = {}
            /\ frame[r].mentionedUsers = <<>> /\ frame[r].prs = <<>>
            /\ reviews \in ReviewLists
            /\ pc[r] \in {"route", "done"}
            /\ pc[r] = "done" => res[r] = Reply(200)

\* with the allow-list C1, a message of another user than the bot in C2
\* that holds a mention and a reference was answered with 200 without work
C39_Witness ==
    \E r \in Reqs :
        /\ pc[r] = "done"
        /\ MessageRouted(r)
        /\ EventOf(r).subtype = "undefined"
        /\ allowedChannels = <<"C1">>
        /\ EventOf(r).channel = "C2"
        /\ EventOf(r).user # BotId
        /\ frame[r].botUserId = BotId
        /\ HasMention(EventOf(r).text) /\ HasReference(EventOf(r).text)
        /\ res[r] = Reply(200)
        /\ Lines(r, FlowOps) = {}


\* the positions of h that hold a completed storeUserToken or
\* deleteUserToken of the identity
WritesOf(h, id) ==
    {k \in 1..Len(h) : /\ h[k].op \in {"storeUserToken", "deleteUserToken"}
                       /\ h[k].id = id
                       /\ h[k].result = "ok"}

\* what the history h leaves stored for the identity: the credential of the
\* most recent storeUserToken that no deleteUserToken followed
LeftStored(h, id) ==
    IF WritesOf(h, id) = {} THEN NoRow
    ELSE LET k == Greatest(WritesOf(h, id))
         IN  IF h[k].op = "deleteUserToken" THEN NoRow
             ELSE Row(h[k].token, h[k].username)

\* C40: after any sequence of storeUserToken and deleteUserToken calls the
\* table holds at most one row per Slack user id; what it holds for an id is
\* the credential of the most recent storeUserToken of that id that no
\* deleteUserToken of that id followed, whatever was done to other ids; and
\* a getUserInfo whose query completes returns exactly that, absent when
\* there is none.
C40_StoreSemantics ==
    pc[1] = "store" =>
        /\ \A id \in SlackIds :
              /\ Cardinality({i \in 1..Len(store) : store[i].slack_user_id = id}) <= 1
              /\ SelectUserInfo(store, id) = LeftStored(log[1], id)
        /\ \A i \in Lines(1, {"getUserInfo"}) :
              LET left == LeftStored(SubSeq(log[1], 1, i - 1), log[1][i].id)
              IN  /\ log[1][i].result = "row" =>
                         left = Row(log[1][i].token, log[1][i].username)
                  /\ log[1][i].result = "null" => ~left.found
                  /\ log[1][i].result \in {"row", "null"} =>
                         log[1][i].result = (IF left.found THEN "row" ELSE "null")

\* a credential was stored for U1, replaced by another, and the lookup
\* returned the second
C40_Witness ==
    /\ pc[1] = "store"
    /\ Len(log[1]) = 3
    /\ log[1][1].op = "storeUserToken" /\ log[1][1].id = "U1" /\ log[1][1].result = "ok"
    /\ log[1][2].op = "storeUserToken" /\ log[1][2].id = "U1" /\ log[1][2].result = "ok"
    /\ log[1][2].token # log[1][1].token
    /\ log[1][3].op = "getUserInfo" /\ log[1][3].id = "U1" /\ log[1][3].result = "row"
    /\ log[1][3].token = log[1][2].token
    /\ Len(store) = 1

====
